---- MODULE Spec2Model ----
(***************************************************************************)
(* Query / aggregation / summary engine of the Spotify listening-history   *)
(* loader (src/dataloader/data_loader.py, src/dataloader/                  *)
(* analysis_functions.py), over a small bounded store.                     *)
(*                                                                         *)
(* A table is [cols |-> sequence of column names, rows |-> sequence of     *)
(* rows], a row a function from the column names to cell values.  A cell   *)
(* value is a tagged record so that null, strings, integers (durations in  *)
(* ms, dates as day numbers, counts) and means can sit in one column.      *)
(***************************************************************************)
EXTENDS Integers, Sequences, FiniteSets, TLC

VARIABLES df, op, req, res, loader_obj, session_state, cache_data, genai_api_key

vars == <<df, op, req, res, loader_obj, session_state, cache_data, genai_api_key>>

\* ------------------------------------------------------------------ bounds
MaxRows == 3
MaxLimit == 2
MaxDay == 3

\* ------------------------------------------------------------ cell values
Null == [k |-> "null", s |-> "", n |-> 0, d |-> 1]
StrV(x) == [k |-> "str", s |-> x, n |-> 0, d |-> 1]
IntV(x) == [k |-> "int", s |-> "", n |-> x, d |-> 1]
RatV(x, y) == [k |-> "rat", s |-> "", n |-> x, d |-> y]

IsNull(v) == v.k = "null"

\* Python's None for an optional column name, column list or integer argument,
\* and a supplied value.
NoName == [some |-> FALSE, v |-> ""]
NoNames == [some |-> FALSE, v |-> <<>>]
NoInt == [some |-> FALSE, v |-> 0]
Some(x) == [some |-> TRUE, v |-> x]

Min(a, b) == IF a <= b THEN a ELSE b
Max(a, b) == IF a >= b THEN a ELSE b

Range(f) == {f[i] : i \in DOMAIN f}

SeqsUpTo(S, n) == UNION {[1..k -> S] : k \in 0..n}

\* Position of the strings the store holds in lexicographic order.
StrOrd(x) == CASE x = "A" -> 1 [] x = "B" -> 2 [] x = "t1" -> 3 [] x = "t2" -> 4
               [] x = "u1" -> 5 [] x = "u2" -> 6 [] OTHER -> 0

\* a < b for two non-null cells of one column.
CellLess(a, b) ==
  CASE a.k = "str" -> StrOrd(a.s) < StrOrd(b.s)
    [] a.k = "int" -> a.n < b.n
    [] a.k = "rat" -> a.n * b.d < b.n * a.d
    [] OTHER -> FALSE

\* ------------------------------------------------------------------ store
\* The columns of a preprocessed store that the engine's callers use, in the
\* order _preprocess selects them.
Columns == <<"ms_played", "track", "artist", "track_uri", "date">>

Row(ms, track, artist, uri, date) ==
  [c \in Range(Columns) |->
     CASE c = "ms_played" -> IntV(ms) [] c = "track" -> StrV(track) [] c = "artist" -> artist
       [] c = "track_uri" -> uri [] OTHER -> IntV(date)]

\* Listening events a source file can hold (track non-null, duration > 0).
Events ==
  { Row(180000, "t1", StrV("A"), StrV("u1"), 1),
    Row(200000, "t2", StrV("A"), StrV("u2"), 2),
    Row(150000, "t1", StrV("B"), StrV("u1"), 2),
    Row(150000, "t2", Null, Null, 1) }

\* pl.DataFrame(): no columns, no rows.
EmptyDf == [cols |-> <<>>, rows |-> <<>>]

IsEmpty(t) == Len(t.rows) = 0

\* What initialize_data leaves in _df: pl.DataFrame() when nothing was read,
\* otherwise the preprocessed table (which may have lost all its rows).
Stores == {EmptyDf} \cup {[cols |-> Columns, rows |-> r] : r \in SeqsUpTo(Events, MaxRows)}

\* --------------------------------------------------------------- outcomes
Ok(t) == [kind |-> "table", cols |-> t.cols, rows |-> t.rows, err |-> "", what |-> "", warnings |-> 0]
Raise(e, w) == [kind |-> "error", cols |-> <<>>, rows |-> <<>>, err |-> e, what |-> w, warnings |-> 0]
IsOk(o) == o.kind = "table"

\* ---------------------------------------------------------------- filters
\* A filter expression pl.col(col) <op> val.  A comparison with a null cell is
\* null ("N"), neither true nor false.
Eval3(p, row) ==
  LET v == row[p.col] IN
  IF IsNull(v) THEN "N"
  ELSE IF CASE p.op = "==" -> v = p.val
            [] p.op = ">" -> CellLess(p.val, v)
            [] p.op = ">=" -> ~CellLess(v, p.val)
            [] p.op = "<=" -> ~CellLess(p.val, v)
            [] OTHER -> FALSE
       THEN "T" ELSE "F"

\* pl.all_horizontal(exprs): Kleene AND.
AllHorizontal(ps, row) ==
  IF \E i \in DOMAIN ps : Eval3(ps[i], row) = "F" THEN "F"
  ELSE IF \E i \in DOMAIN ps : Eval3(ps[i], row) = "N" THEN "N"
  ELSE "T"

\* The rows at the positions of `keep`, in their order.
RECURSIVE SelectRows(_, _, _)
SelectRows(rows, keep, i) ==
  IF i > Len(rows) THEN <<>>
  ELSE (IF i \in keep THEN <<rows[i]>> ELSE <<>>) \o SelectRows(rows, keep, i + 1)

\* DataFrame.filter(all_horizontal(ps)): keeps the rows whose predicate is true;
\* a predicate on a column the table lacks raises.
DfFilter(t, ps) ==
  IF \E i \in DOMAIN ps : ps[i].col \notin Range(t.cols)
  THEN Raise("ColumnNotFoundError", "filter")
  ELSE Ok([cols |-> t.cols,
           rows |-> SelectRows(t.rows, {i \in DOMAIN t.rows : AllHorizontal(ps, t.rows[i]) = "T"}, 1)])

\* `where` is None, one expression, or a list of expressions.
NoWhere == [form |-> "none", exprs |-> <<>>]
WhereExpr(p) == [form |-> "expr", exprs |-> <<p>>]
WhereList(ps) == [form |-> "list", exprs |-> ps]

\* Mutant of ApplyWhere: without the `if where:` guard an empty list reaches
\* the filter and excludes every row.
ApplyWhere_emptyexcludes(t, where) ==
  IF where.form # "none"
  THEN IF where.exprs # <<>> THEN DfFilter(t, where.exprs)
       ELSE Ok([cols |-> t.cols, rows |-> <<>>])
  ELSE Ok(t)

\* The `if where is not None: ...` block of query_data and aggregate_table.
ApplyWhere(t, where) ==
  IF where.form # "none"
  THEN IF where.form = "list"
       THEN IF where.exprs # <<>> THEN DfFilter(t, where.exprs) ELSE Ok(t)
       ELSE DfFilter(t, where.exprs)
  ELSE Ok(t)

\* ------------------------------------------------- select, sort and head
\* DataFrame.select(names): the named columns in the caller's order.
DfSelect(t, names) ==
  IF \E i \in DOMAIN names : names[i] \notin Range(t.cols)
  THEN Raise("ColumnNotFoundError", "select")
  ELSE Ok([cols |-> names,
           rows |-> [i \in DOMAIN t.rows |-> [c \in Range(names) |-> t.rows[i][c]]]])

Perms(n) == {p \in [1..n -> 1..n] : \A i, j \in 1..n : p[i] = p[j] => i = j}

\* a may stand before b in a column sorted in the given direction (nulls first).
InOrder(a, b, descending) ==
  IF IsNull(a) THEN TRUE
  ELSE IF IsNull(b) THEN FALSE
  ELSE IF descending THEN ~CellLess(a, b) ELSE ~CellLess(b, a)

\* DataFrame.sort(col, descending=...): polars does not keep the order of equal
\* keys (maintain_order=False), so every sorted arrangement is a possible result.
DfSort(t, col, descending) ==
  IF col \notin Range(t.cols)
  THEN {Raise("ColumnNotFoundError", "sort")}
  ELSE {Ok([cols |-> t.cols, rows |-> [i \in DOMAIN t.rows |-> t.rows[p[i]]]]) :
          p \in {q \in Perms(Len(t.rows)) :
                   \A i \in 1..(Len(t.rows) - 1) :
                      InOrder(t.rows[q[i]][col], t.rows[q[i + 1]][col], descending)}}

\* DataFrame.head(n): the first n rows; a negative n drops the last |n| rows.
DfHead(t, n) ==
  [cols |-> t.cols,
   rows |-> SubSeq(t.rows, 1, IF n >= 0 THEN Min(n, Len(t.rows)) ELSE Max(Len(t.rows) + n, 0))]

\* The `if sort_by is not None` and `if limit is not None` tail shared by
\* query_data and aggregate_table, applied to the outcome so far.
SortStep(o, sort_by, descending) ==
  IF ~IsOk(o) THEN {o}
  ELSE IF sort_by.some THEN DfSort(o, sort_by.v, descending) ELSE {o}

LimitStep(o, limit) ==
  IF ~IsOk(o) THEN o
  ELSE IF limit.some THEN Ok(DfHead(o, limit.v)) ELSE o

SelectStep(o, select) ==
  IF ~IsOk(o) THEN o
  ELSE IF select.some THEN DfSelect(o, select.v) ELSE o

\* -------------------------------------------------------------- query_data
\* Mutant of query_data: the limit is applied before the sort.
query_data_limit_first(t, r) ==
  IF IsEmpty(t) THEN {Ok(EmptyDf)}
  ELSE SortStep(LimitStep(SelectStep(ApplyWhere(t, r.where), r.select), r.limit),
                r.sort_by, r.descending)

\* SpotifyDataLoader.query_data: the set of results the call can return.
query_data(t, r) ==
  IF IsEmpty(t) THEN {Ok(EmptyDf)}
  ELSE {LimitStep(s, r.limit) :
          s \in SortStep(SelectStep(ApplyWhere(t, r.where), r.select), r.sort_by, r.descending)}

\* --------------------------------------------------------- aggregate_table
\* A metric spec is a bare function name or a (function, alias) tuple; a metrics
\* dict maps a source column to one spec or to a list of specs and is iterated in
\* insertion order.
Bare(f) == [form |-> "bare", func |-> f, alias |-> ""]
Pair(f, a) == [form |-> "pair", func |-> f, alias |-> a]
One(c, sp) == [col |-> c, list |-> FALSE, specs |-> <<sp>>]
Many(c, sps) == [col |-> c, list |-> TRUE, specs |-> sps]

SupportedFuncs == {"sum", "mean", "count", "n_unique"}

\* `specs = [agg_func_specs] if not isinstance(agg_func_specs, list) else
\* agg_func_specs`, for every item of the dict: the (column, spec) pairs in
\* iteration order.
RECURSIVE NormalizeSpecs(_)
NormalizeSpecs(metrics) ==
  IF metrics = <<>> THEN <<>>
  ELSE [i \in DOMAIN Head(metrics).specs |->
          [col |-> Head(metrics).col, spec |-> Head(metrics).specs[i]]]
       \o NormalizeSpecs(Tail(metrics))

\* f"{col}_{func}"
DefaultAlias(col, func) == col \o "_" \o func

\* `alias_name = custom_alias if custom_alias else f"{col}_{func}"`: an alias is
\* used when the spec is a tuple and the alias is truthy (a non-empty string).
AliasName(col, spec) ==
  IF spec.form = "pair" /\ spec.alias # "" THEN spec.alias
  ELSE DefaultAlias(col, spec.func)

\* Mutant of DictSet: the first expression of a name is kept.
DictSet_keepfirst(exprs, e) ==
  IF \E i \in DOMAIN exprs : exprs[i].name = e.name THEN exprs ELSE Append(exprs, e)

\* agg_exprs_dict[alias_name] = expr: a dict keeps a key's first position and
\* its last value.
DictSet(exprs, e) ==
  IF \E i \in DOMAIN exprs : exprs[i].name = e.name
  THEN [i \in DOMAIN exprs |-> IF exprs[i].name = e.name THEN e ELSE exprs[i]]
  ELSE Append(exprs, e)

\* Mutant of BuildExprs: an unsupported function is skipped, not raised.
RECURSIVE BuildExprs_skip(_, _, _)
BuildExprs_skip(items, exprs, warnings) ==
  IF items = <<>>
  THEN [raised |-> FALSE, func |-> "", exprs |-> exprs, warnings |-> warnings]
  ELSE IF Head(items).spec.func \in SupportedFuncs
       THEN BuildExprs_skip(Tail(items),
                            DictSet(exprs, [name |-> AliasName(Head(items).col, Head(items).spec),
                                            func |-> Head(items).spec.func, col |-> Head(items).col]),
                            warnings)
       ELSE BuildExprs_skip(Tail(items), exprs, warnings)

\* The loop that builds agg_exprs_dict: it counts the collision warnings it logs
\* and stops at the first unsupported function.
RECURSIVE BuildExprs(_, _, _)
BuildExprs(items, exprs, warnings) ==
  IF items = <<>>
  THEN [raised |-> FALSE, func |-> "", exprs |-> exprs, warnings |-> warnings]
  ELSE LET col == Head(items).col
           func == Head(items).spec.func
           alias_name == AliasName(col, Head(items).spec)
           w == IF \E i \in DOMAIN exprs : exprs[i].name = alias_name
                THEN warnings + 1 ELSE warnings
       IN IF func \in SupportedFuncs
          THEN BuildExprs(Tail(items), DictSet(exprs, [name |-> alias_name, func |-> func, col |-> col]), w)
          ELSE [raised |-> TRUE, func |-> func, exprs |-> exprs, warnings |-> w]

RECURSIVE SumCells(_)
SumCells(cells) ==
  IF cells = <<>> THEN 0
  ELSE (IF IsNull(Head(cells)) THEN 0 ELSE Head(cells).n) + SumCells(Tail(cells))

NonNullCount(cells) == Cardinality({i \in DOMAIN cells : ~IsNull(cells[i])})

\* The columns whose cells are numbers (durations and dates); the others hold
\* strings.
IsNumeric(col) == col \in {"ms_played", "date"}

\* Mutant of Aggregate: count counts every cell, null or not.
Aggregate_countall(func, col, cells) ==
  CASE func = "sum" -> IF IsNumeric(col) THEN IntV(SumCells(cells)) ELSE Null
    [] func = "mean" -> IF IsNumeric(col) /\ NonNullCount(cells) > 0
                        THEN RatV(SumCells(cells), NonNullCount(cells)) ELSE Null
    [] func = "count" -> IntV(Len(cells))
    [] OTHER -> IntV(Cardinality(Range(cells)))

\* pl.sum / pl.mean / pl.count / pl.n_unique of one column over one group's
\* cells.  sum and mean skip nulls, count counts the non-null cells, n_unique
\* counts null as a value; sum or mean of a string column is null here (the
\* builds that raise instead are handled in GroupByAgg).
Aggregate(func, col, cells) ==
  CASE func = "sum" -> IF IsNumeric(col) THEN IntV(SumCells(cells)) ELSE Null
    [] func = "mean" -> IF IsNumeric(col) /\ NonNullCount(cells) > 0
                        THEN RatV(SumCells(cells), NonNullCount(cells)) ELSE Null
    [] func = "count" -> IntV(NonNullCount(cells))
    [] OTHER -> IntV(Cardinality(Range(cells)))

KeyOf(row, group_by) == [i \in DOMAIN group_by |-> row[group_by[i]]]

HasDuplicates(names) == \E i, j \in DOMAIN names : i # j /\ names[i] = names[j]

\* The output row of one group: its key cells, then one cell per expression.
GroupRow(t, group_by, exprs, key) ==
  LET members == SelectRows(t.rows, {i \in DOMAIN t.rows : KeyOf(t.rows[i], group_by) = key}, 1)
      gcol(c) == CHOOSE i \in DOMAIN group_by : group_by[i] = c
      ecol(c) == CHOOSE i \in DOMAIN exprs : exprs[i].name = c
  IN [c \in Range(group_by) \cup {exprs[i].name : i \in DOMAIN exprs} |->
        IF c \in Range(group_by) THEN key[gcol(c)]
        ELSE Aggregate(exprs[ecol(c)].func, exprs[ecol(c)].col,
                       [i \in DOMAIN members |-> members[i][exprs[ecol(c)].col]])]

\* Mutant of GroupKeys: rows with a null key cell are left out of the grouping.
GroupKeys_dropnull(t, group_by) ==
  {k \in {KeyOf(t.rows[i], group_by) : i \in DOMAIN t.rows} : \A j \in DOMAIN k : ~IsNull(k[j])}

\* The distinct keys of group_by: a null cell is a key value like any other.
GroupKeys(t, group_by) == {KeyOf(t.rows[i], group_by) : i \in DOMAIN t.rows}

\* df.group_by(group_by).agg(exprs): one row per distinct key (a null key is a
\* key like any other), in any order (maintain_order=False).  strAgg is what the
\* installed polars does with sum or mean of a string column: "null" or "raise".
GroupByAgg(t, group_by, exprs, strAgg) ==
  LET names == group_by \o [i \in DOMAIN exprs |-> exprs[i].name]
      keys == GroupKeys(t, group_by)
  IN IF \/ \E i \in DOMAIN group_by : group_by[i] \notin Range(t.cols)
        \/ \E i \in DOMAIN exprs : exprs[i].col \notin Range(t.cols)
     THEN {Raise("ColumnNotFoundError", "group_by")}
     ELSE IF HasDuplicates(names)
     THEN {Raise("DuplicateError", "group_by")}
     ELSE IF /\ strAgg = "raise"
             /\ \E i \in DOMAIN exprs : exprs[i].func \in {"sum", "mean"} /\ ~IsNumeric(exprs[i].col)
     THEN {Raise("InvalidOperationError", "group_by")}
     ELSE {Ok([cols |-> names,
               rows |-> [i \in DOMAIN order |-> GroupRow(t, group_by, exprs, order[i])]]) :
             order \in {q \in [1..Cardinality(keys) -> keys] :
                          \A i, j \in DOMAIN q : q[i] = q[j] => i = j}}

WithWarnings(o, w) == [o EXCEPT !.warnings = w]

\* Mutant of aggregate_table: the limit cuts the source rows before grouping.
aggregate_table_limit_first(t, r, strAgg) ==
  IF IsEmpty(t) THEN {Ok(EmptyDf)}
  ELSE LET f == LimitStep(ApplyWhere(t, r.where), r.limit)
           b == BuildExprs(NormalizeSpecs(r.metrics), <<>>, 0)
       IN IF ~IsOk(f) THEN {f}
          ELSE IF b.raised THEN {WithWarnings(Raise("ValueError", b.func), b.warnings)}
          ELSE {WithWarnings(s, b.warnings) :
                  s \in UNION {SortStep(g, r.sort_by, r.descending) :
                                 g \in GroupByAgg(f, r.group_by, b.exprs, strAgg)}}

\* Mutant of aggregate_table: no early return for an empty store.
aggregate_table_nocheck(t, r, strAgg) ==
  LET f == ApplyWhere(t, r.where)
      b == BuildExprs(NormalizeSpecs(r.metrics), <<>>, 0)
  IN IF ~IsOk(f) THEN {f}
     ELSE IF b.raised THEN {WithWarnings(Raise("ValueError", b.func), b.warnings)}
     ELSE {WithWarnings(LimitStep(s, r.limit), b.warnings) :
             s \in UNION {SortStep(g, r.sort_by, r.descending) :
                            g \in GroupByAgg(f, r.group_by, b.exprs, strAgg)}}

\* SpotifyDataLoader.aggregate_table: the set of results the call can return.
aggregate_table(t, r, strAgg) ==
  IF IsEmpty(t) THEN {Ok(EmptyDf)}
  ELSE LET f == ApplyWhere(t, r.where)
           b == BuildExprs(NormalizeSpecs(r.metrics), <<>>, 0)
       IN IF ~IsOk(f) THEN {f}
          ELSE IF b.raised THEN {WithWarnings(Raise("ValueError", b.func), b.warnings)}
          ELSE {WithWarnings(LimitStep(s, r.limit), b.warnings) :
                  s \in UNION {SortStep(g, r.sort_by, r.descending) :
                                 g \in GroupByAgg(f, r.group_by, b.exprs, strAgg)}}

\* ------------------------------------------------------------- get_summary
\* str(date) of the day numbers the store holds.
DateStr(d) ==
  CASE d = 1 -> "2024-01-15" [] d = 2 -> "2024-02-10" [] OTHER -> "None"

RECURSIVE MinCell(_)
MinCell(cells) ==
  IF Len(cells) = 1 THEN Head(cells).n ELSE Min(Head(cells).n, MinCell(Tail(cells)))

RECURSIVE MaxCell(_)
MaxCell(cells) ==
  IF Len(cells) = 1 THEN Head(cells).n ELSE Max(Head(cells).n, MaxCell(Tail(cells)))

ColumnCells(t, col) == [i \in DOMAIN t.rows |-> t.rows[i][col]]

NonNullCells(cells) == SelectRows(cells, {i \in DOMAIN cells : ~IsNull(cells[i])}, 1)

NUnique(t, col) == Cardinality(Range(ColumnCells(t, col)))

\* sum().dt.total_minutes(): whole minutes of a duration in ms.
MsPerMinute == 60000
TotalMinutes(t) == SumCells(ColumnCells(t, "ms_played")) \div MsPerMinute

NoRange == [some |-> FALSE, start |-> "", end |-> ""]
DateRange(a, b) == [some |-> TRUE, start |-> a, end |-> b]

Summary(records, minutes, columns, range, tracks, artists) ==
  [kind |-> "summary", total_records |-> records, total_listening_time |-> minutes,
   columns |-> columns, date_range |-> range, unique_tracks |-> tracks,
   unique_artists |-> artists]

\* SpotifyDataLoader.get_summary.
get_summary(t) ==
  IF IsEmpty(t)
  THEN Summary(0, 0, <<>>, NoRange, NoInt, NoInt)
  ELSE IF "track_uri" \notin Range(t.cols) \/ "artist" \notin Range(t.cols)
  THEN Raise("ColumnNotFoundError", "select")
  ELSE Summary(Len(t.rows),
               IF "ms_played" \in Range(t.cols) THEN TotalMinutes(t) ELSE 0,
               t.cols,
               IF "date" \in Range(t.cols)
               THEN DateRange(DateStr(MinCell(ColumnCells(t, "date"))),
                              DateStr(MaxCell(ColumnCells(t, "date"))))
               ELSE NoRange,
               Some(NUnique(t, "track_uri")),
               Some(NUnique(t, "artist")))

\* The `filters` list that the functions of analysis_functions build from
\* start_date and end_date.
DateFilters(start_date, end_date) ==
  (IF start_date.some THEN <<[col |-> "date", op |-> ">=", val |-> IntV(start_date.v)]>> ELSE <<>>)
  \o (IF end_date.some THEN <<[col |-> "date", op |-> "<=", val |-> IntV(end_date.v)]>> ELSE <<>>)

\* analysis_functions.query_data(df, where=filters): df is None, or a table.
\* Without select, sort and limit the call has one result.
analysis_query_data(arg, where) ==
  IF arg.none \/ IsEmpty(arg.t) THEN Ok(EmptyDf)
  ELSE ApplyWhere(arg.t, where)

\* analysis_functions.get_summary(df, start_date, end_date).
analysis_get_summary(arg, start_date, end_date) ==
  LET f == analysis_query_data(arg, WhereList(DateFilters(start_date, end_date)))
      has(c) == c \in Range(f.cols)
      track_col == IF has("track_uri") THEN "track_uri" ELSE "track"
  IN IF ~IsOk(f) THEN f
     ELSE IF IsEmpty(f)
     THEN Summary(0, 0, IF arg.none THEN <<>> ELSE arg.t.cols, NoRange, Some(0), Some(0))
     ELSE IF ~(has("ms_played") \/ has("date") \/ has("track_uri") \/ has("track") \/ has("artist"))
     THEN Raise("IndexError", "to_dicts")
     ELSE Summary(Len(f.rows),
                  IF has("ms_played") THEN TotalMinutes(f) ELSE 0,
                  f.cols,
                  IF has("date") /\ NonNullCells(ColumnCells(f, "date")) # <<>>
                  THEN DateRange(DateStr(MinCell(NonNullCells(ColumnCells(f, "date")))),
                                 DateStr(MaxCell(NonNullCells(ColumnCells(f, "date")))))
                  ELSE NoRange,
                  Some(IF has("track_uri") \/ has("track") THEN NUnique(f, track_col) ELSE 0),
                  Some(IF has("artist") THEN NUnique(f, "artist") ELSE 0))

\* ----------------------------------------------------------------- inputs
PredA == [col |-> "artist", op |-> "==", val |-> StrV("A")]
PredLong == [col |-> "ms_played", op |-> ">", val |-> IntV(190000)]

Wheres == {NoWhere, WhereList(<<>>), WhereExpr(PredA), WhereExpr(PredLong),
           WhereList(<<PredA>>), WhereList(<<PredA, PredLong>>)}

Limits == {NoInt} \cup {Some(n) : n \in (-1)..MaxLimit}

Selects == {NoNames, Some(<<"artist">>), Some(<<"track", "ms_played">>)}

Sorts == {[sort_by |-> NoName, descending |-> TRUE],
          [sort_by |-> Some("ms_played"), descending |-> TRUE],
          [sort_by |-> Some("artist"), descending |-> FALSE]}

QueryRequests ==
  {[where |-> w, select |-> s, sort_by |-> so.sort_by, descending |-> so.descending, limit |-> l] :
     w \in Wheres, s \in Selects, so \in Sorts, l \in Limits}

\* Metrics dicts: default and custom names, one spec and lists of specs,
\* colliding names, an empty alias, unsupported functions, an alias that is also
\* a group-by column, a string column under sum, an absent column, no metric.
NamingMetrics ==
  { <<One("ms_played", Bare("sum"))>>,
    <<One("ms_played", Pair("sum", "total_ms"))>>,
    <<Many("ms_played", <<Bare("sum")>>)>>,
    <<Many("track", <<Pair("count", "num_plays"), Pair("n_unique", "unique_tracks")>>),
      One("ms_played", Bare("sum"))>>,
    <<Many("track", <<Pair("count", "num_plays"), Pair("count", "num_plays")>>)>>,
    <<One("artist", Pair("count", "x")), One("ms_played", Pair("sum", "x"))>>,
    <<Many("ms_played", <<Bare("sum"), Pair("count", "ms_played_sum")>>)>>,
    <<Many("artist", <<Pair("count", "n"), Pair("n_unique", "u"), Pair("n_unique", "n")>>)>>,
    <<One("ms_played", Pair("sum", ""))>>,
    <<One("ms_played", Bare("median"))>>,
    <<Many("ms_played", <<Bare("sum"), Pair("median", "mid")>>)>>,
    <<One("artist", Bare("n_unique")), One("track_uri", Bare("count"))>>,
    <<One("ms_played", Bare("mean"))>>,
    <<One("artist", Bare("sum"))>>,
    <<One("ms_played", Pair("sum", "artist"))>>,
    <<One("genre", Bare("count"))>>,
    <<>> }

PipelineMetrics == {<<One("ms_played", Pair("sum", "total_ms"))>>}

BadMetrics == {<<One("artist", Bare("count")), One("ms_played", Bare("median"))>>}

GroupBys == {<<"artist">>, <<"artist", "date">>, <<"genre">>}

AggSorts == {[sort_by |-> NoName, descending |-> TRUE],
             [sort_by |-> Some("total_ms"), descending |-> TRUE],
             [sort_by |-> Some("artist"), descending |-> FALSE]}

\* Every metrics dict with a few filters and limits; one metrics dict with every
\* group-by, filter, sort and limit; and an unsupported function with every
\* group-by and sort.
AggRequests ==
  {[group_by |-> g, metrics |-> m, where |-> w, sort_by |-> NoName, descending |-> TRUE, limit |-> l] :
     g \in {<<"artist">>, <<"artist", "date">>}, m \in NamingMetrics,
     w \in {NoWhere, WhereExpr(PredLong)}, l \in {NoInt, Some(1)}}
  \cup
  {[group_by |-> g, metrics |-> m, where |-> w, sort_by |-> so.sort_by,
    descending |-> so.descending, limit |-> l] :
     g \in GroupBys, m \in PipelineMetrics, w \in Wheres, so \in AggSorts, l \in Limits}
  \cup
  {[group_by |-> g, metrics |-> m, where |-> w, sort_by |-> so.sort_by,
    descending |-> so.descending, limit |-> l] :
     g \in GroupBys, m \in BadMetrics, w \in {NoWhere, WhereList(<<PredA>>)},
     so \in AggSorts, l \in {NoInt, Some(1)}}

StrAggBuilds == {"null", "raise"}

\* start_date / end_date of a summary: None, or a day from the day before the
\* first event to the day after the last.
Dates == {NoInt} \cup {Some(d) : d \in 0..MaxDay}

SummaryRequests ==
  {[where |-> NoWhere, limit |-> NoInt, none |-> n, start_date |-> a, end_date |-> b] :
     n \in BOOLEAN, a \in Dates, b \in Dates}

\* ------------------------------------------------------------ state machine
\* df is the loader's _df.  One call runs at a time (section 5 of the design:
\* synchronous request/response): op names the call whose result is in res, req
\* holds its arguments, and Return hands the result back to the caller.
NoRequest == [where |-> NoWhere, limit |-> NoInt]

\* No loader is being constructed, no browser session is open and nothing is
\* cached: the engine is exercised on one loader that already exists.
NoLoaderObj == [pc |-> "none"]
NoSessions == <<>>
NoCache == {}

\* No key, in a session and in the google.generativeai module (genai.configure
\* has not been called).
NoKey == ""

Init ==
  /\ df \in Stores
  /\ op = "idle"
  /\ req = NoRequest
  /\ res = Ok(EmptyDf)
  /\ loader_obj = NoLoaderObj
  /\ session_state = NoSessions
  /\ cache_data = NoCache
  /\ genai_api_key = NoKey

\* Mutant of QueryData: the filtered, projected table is stored back into _df.
QueryData_inplace ==
  /\ op = "idle"
  /\ \E r \in QueryRequests :
       \E o \in query_data(df, r) :
         /\ op' = "query_data"
         /\ req' = r
         /\ res' = o
         /\ df' = (IF IsOk(o) THEN [cols |-> o.cols, rows |-> o.rows] ELSE df)
         /\ UNCHANGED <<loader_obj, session_state, cache_data, genai_api_key>>

QueryData ==
  /\ op = "idle"
  /\ \E r \in QueryRequests :
       \E o \in query_data(df, r) :
         /\ op' = "query_data"
         /\ req' = r
         /\ res' = o
         /\ UNCHANGED <<df, loader_obj, session_state, cache_data, genai_api_key>>

AggregateTable ==
  /\ op = "idle"
  /\ \E r \in AggRequests, b \in StrAggBuilds :
       \E o \in aggregate_table(df, r, b) :
         /\ op' = "aggregate_table"
         /\ req' = r
         /\ res' = o
         /\ UNCHANGED <<df, loader_obj, session_state, cache_data, genai_api_key>>

GetSummary ==
  /\ op = "idle"
  /\ op' = "get_summary"
  /\ req' = NoRequest
  /\ res' = get_summary(df)
  /\ UNCHANGED <<df, loader_obj, session_state, cache_data, genai_api_key>>

AnalysisGetSummary ==
  /\ op = "idle"
  /\ \E r \in SummaryRequests :
       /\ op' = "analysis.get_summary"
       /\ req' = r
       /\ res' = analysis_get_summary([none |-> r.none, t |-> df], r.start_date, r.end_date)
       /\ UNCHANGED <<df, loader_obj, session_state, cache_data, genai_api_key>>

Return ==
  /\ op # "idle"
  /\ op' = "idle"
  /\ req' = NoRequest
  /\ res' = Ok(EmptyDf)
  /\ UNCHANGED <<df, loader_obj, session_state, cache_data, genai_api_key>>

Next ==
  \/ QueryData
  \/ AggregateTable
  \/ GetSummary
  \/ AnalysisGetSummary
  \/ Return

Spec == Init /\ [][Next]_vars

\* ================================================================== claims
\* Reference notions the claims are stated with.

\* The positions of the rows of t that satisfy every predicate of `where`.
Passing(t, where) ==
  {i \in DOMAIN t.rows : \A j \in DOMAIN where.exprs : Eval3(where.exprs[j], t.rows[i]) = "T"}

\* The distinct group-by key tuples among the rows that pass the filters.
DistinctKeys(t, where, group_by) ==
  {[j \in DOMAIN group_by |-> t.rows[i][group_by[j]]] : i \in Passing(t, where)}

\* The cells of column col in the passing rows whose key is `key`.
GroupCells(t, where, group_by, key, col) ==
  LET idx == {i \in Passing(t, where) : \A j \in DOMAIN group_by : t.rows[i][group_by[j]] = key[j]}
  IN [i \in idx |-> t.rows[i][col]]

\* The output name the naming rule gives a spec: "<column>_<function>" for a bare
\* function name, the alias verbatim for a (function, alias) pair.
RuleName(item) ==
  IF item.spec.form = "pair" THEN item.spec.alias
  ELSE item.col \o "_" \o item.spec.func

Items == NormalizeSpecs(req.metrics)

AggCalled == op = "aggregate_table"
AggReturned == op = "aggregate_table" /\ ~IsEmpty(df) /\ IsOk(res)
ResultKeys == {[j \in DOMAIN req.group_by |-> res.rows[i][req.group_by[j]]] : i \in DOMAIN res.rows}

\* C1 (as stated): on a non-empty store the number of result rows of
\* aggregate_table equals the number of distinct group-by key tuples among the
\* rows that pass the filters, for any request, limit included.
C1_RowsEqualGroups ==
  AggReturned => Len(res.rows) = Cardinality(DistinctKeys(df, req.where, req.group_by))

\* C1 (amended): the number of result rows is the number of distinct key tuples
\* of the passing rows (null counted as a key value) when no limit is given, and
\* then every key, null keys included, has its row; with a limit N >= 0 it is
\* min(N, that number), and with a negative limit the last |N| groups are cut.
C1_RowsEqualGroupsUpToLimit ==
  AggReturned =>
    LET n == Cardinality(DistinctKeys(df, req.where, req.group_by)) IN
    IF ~req.limit.some
    THEN Len(res.rows) = n /\ ResultKeys = DistinctKeys(df, req.where, req.group_by)
    ELSE IF req.limit.v >= 0 THEN Len(res.rows) = Min(req.limit.v, n)
    ELSE Len(res.rows) = Max(n + req.limit.v, 0)

\* A returned aggregation without limit that has a null-key group beside others.
C1_Witness ==
  /\ AggReturned
  /\ ~req.limit.some
  /\ Len(res.rows) = 3
  /\ \E i \in DOMAIN res.rows : IsNull(res.rows[i]["artist"])

\* C2: in every result row each metric column holds the aggregate of its source
\* column over exactly the passing rows of that row's group: sum the total, count
\* the number of non-null cells, n_unique the number of distinct cells; and the
\* store {A, A, B} x {180000, 200000, 150000} grouped by artist with
\* ('sum', 'total_ms') gives exactly A -> 380000 and B -> 150000.
RefSum(cells) == LET S == DOMAIN cells IN
  LET RECURSIVE Tot(_)
      Tot(T) == IF T = {} THEN 0 ELSE LET x == CHOOSE y \in T : TRUE IN cells[x].n + Tot(T \ {x})
  IN Tot({i \in S : cells[i].k = "int"})

RefAggregate(func, cells) ==
  CASE func = "sum" -> RefSum(cells)
    [] func = "count" -> Cardinality({i \in DOMAIN cells : cells[i].k # "null"})
    [] OTHER -> Cardinality({cells[i] : i \in DOMAIN cells})

\* The spec that owns an output column: the last one resolving to its name.
Owns(i) == \A j \in DOMAIN Items : j > i => AliasName(Items[j].col, Items[j].spec) # AliasName(Items[i].col, Items[i].spec)

ScenarioStore == <<Row(180000, "t1", StrV("A"), StrV("u1"), 1),
                   Row(200000, "t2", StrV("A"), StrV("u2"), 2),
                   Row(150000, "t1", StrV("B"), StrV("u1"), 2)>>
ScenarioRequest ==
  [group_by |-> <<"artist">>, metrics |-> <<One("ms_played", Pair("sum", "total_ms"))>>,
   where |-> NoWhere, sort_by |-> NoName, descending |-> TRUE, limit |-> NoInt]
IsScenario == AggCalled /\ df.rows = ScenarioStore /\ req = ScenarioRequest

C2_MetricsAreGroupAggregates ==
  /\ AggReturned =>
       \A r \in DOMAIN res.rows : \A i \in DOMAIN Items :
         (/\ Owns(i)
          /\ Items[i].spec.func \in {"sum", "count", "n_unique"}
          /\ Items[i].spec.func = "sum" => IsNumeric(Items[i].col))
         => res.rows[r][AliasName(Items[i].col, Items[i].spec)] =
              IntV(RefAggregate(Items[i].spec.func,
                                GroupCells(df, req.where, req.group_by,
                                           [j \in DOMAIN req.group_by |-> res.rows[r][req.group_by[j]]],
                                           Items[i].col)))
  /\ IsScenario =>
       /\ IsOk(res)
       /\ res.cols = <<"artist", "total_ms">>
       /\ Range(res.rows) = {[c \in {"artist", "total_ms"} |-> IF c = "artist" THEN StrV("A") ELSE IntV(380000)],
                             [c \in {"artist", "total_ms"} |-> IF c = "artist" THEN StrV("B") ELSE IntV(150000)]}
       /\ Len(res.rows) = 2

\* The scenario was run.
C2_Witness == IsScenario /\ IsOk(res) /\ Len(res.rows) = 2

\* C3: every bare function name f on column c gives an output column named
\* exactly "c_f", and every (function, alias) pair gives an output column named
\* exactly the alias, whatever string the alias is.
C3_OutputNamesFollowRule ==
  AggReturned => \A i \in DOMAIN Items : RuleName(Items[i]) \in Range(res.cols)

\* C4: when two specs resolve to one output name the call does not fail, the
\* result has exactly one column of that name holding the later spec's values,
\* and every other requested column is there exactly once.
Collides == \E i, j \in DOMAIN Items : i < j /\ AliasName(Items[i].col, Items[i].spec) = AliasName(Items[j].col, Items[j].spec)

\* Nothing else in the request makes polars raise.
WellFormed ==
  /\ \A i \in DOMAIN Items :
       /\ Items[i].spec.func \in SupportedFuncs
       /\ Items[i].col \in Range(df.cols)
       /\ AliasName(Items[i].col, Items[i].spec) \notin Range(req.group_by)
       /\ Items[i].spec.func \in {"sum", "mean"} => IsNumeric(Items[i].col)
  /\ \A j \in DOMAIN req.group_by : req.group_by[j] \in Range(df.cols)
  /\ req.sort_by.some =>
       req.sort_by.v \in Range(req.group_by) \cup {AliasName(Items[i].col, Items[i].spec) : i \in DOMAIN Items}

Occurrences(names, x) == Cardinality({i \in DOMAIN names : names[i] = x})

C4_CollisionLastWins ==
  (AggCalled /\ ~IsEmpty(df) /\ Collides /\ WellFormed) =>
    /\ IsOk(res)
    /\ \A i \in DOMAIN Items :
         /\ Occurrences(res.cols, AliasName(Items[i].col, Items[i].spec)) = 1
         /\ (Owns(i) /\ Items[i].spec.func \in {"count", "n_unique"}) =>
              \A r \in DOMAIN res.rows :
                res.rows[r][AliasName(Items[i].col, Items[i].spec)] =
                  IntV(RefAggregate(Items[i].spec.func,
                                    GroupCells(df, req.where, req.group_by,
                                               [j \in DOMAIN req.group_by |-> res.rows[r][req.group_by[j]]],
                                               Items[i].col)))
    /\ Len(res.cols) = Len(req.group_by)
                       + Cardinality({AliasName(Items[i].col, Items[i].spec) : i \in DOMAIN Items})

\* The three-spec request, whose first (count) and third (n_unique) spec share
\* the name "n", returned a null-artist group, where the two functions differ.
C4_Witness ==
  /\ AggReturned /\ Collides /\ WellFormed
  /\ Len(Items) = 3
  /\ \E r \in DOMAIN res.rows : IsNull(res.rows[r]["artist"])

\* C5 (as stated): for every store, empty or not, a metric whose function is not
\* sum, mean, count or n_unique makes aggregate_table raise an error naming it.
HasUnsupported == \E i \in DOMAIN Items : Items[i].spec.func \notin {"sum", "mean", "count", "n_unique"}
FirstUnsupported ==
  Items[CHOOSE i \in DOMAIN Items :
          /\ Items[i].spec.func \notin {"sum", "mean", "count", "n_unique"}
          /\ \A j \in 1..(i - 1) : Items[j].spec.func \in {"sum", "mean", "count", "n_unique"}].spec.func

C5_UnsupportedAlwaysRaises ==
  (AggCalled /\ HasUnsupported) =>
    res.kind = "error" /\ res.err = "ValueError" /\ res.what = FirstUnsupported

\* C5 (amended): on a non-empty store such a metric makes aggregate_table raise
\* a ValueError naming the (first) unsupported function and return no result; on
\* an empty store the call returns the empty table without reading the metrics.
C5_UnsupportedRaisesOnNonEmpty ==
  (AggCalled /\ HasUnsupported) =>
    IF IsEmpty(df) THEN res = Ok(EmptyDf)
    ELSE res.kind = "error" /\ res.err = "ValueError" /\ res.what = FirstUnsupported

\* An unsupported function after a supported one, on a store with rows.
C5_Witness ==
  /\ AggCalled /\ ~IsEmpty(df) /\ HasUnsupported
  /\ Len(Items) = 2 /\ Items[1].spec.func = "sum"
  /\ res.kind = "error"

QueryCalled == op = "query_data"
QueryReturned == op = "query_data" /\ ~IsEmpty(df) /\ IsOk(res)
PassingRows == SelectRows(df.rows, Passing(df, req.where), 1)

\* C6: on a non-empty store query_data with limit N >= 0 returns exactly
\* min(N, number of passing rows) rows, and they are the first rows, in order, of
\* a result of the same request without the limit (sorted order with a sort
\* column, store order without).
C6_LimitIsPrefix ==
  (QueryCalled /\ ~IsEmpty(df) /\ req.limit.some /\ req.limit.v >= 0) =>
    /\ ~req.select.some => IsOk(res)
    /\ IsOk(res) =>
         /\ Len(res.rows) = Min(req.limit.v, Cardinality(Passing(df, req.where)))
         /\ \E u \in query_data(df, [req EXCEPT !.limit = NoInt]) :
              IsOk(u) /\ u.cols = res.cols /\ res.rows = SubSeq(u.rows, 1, Len(res.rows))
         /\ req.sort_by.some =>
              /\ \A i \in 1..(Len(res.rows) - 1) :
                   InOrder(res.rows[i][req.sort_by.v], res.rows[i + 1][req.sort_by.v], req.descending)
              /\ \A i \in DOMAIN res.rows : \A j \in Passing(df, req.where) :
                   \/ InOrder(res.rows[i][req.sort_by.v], df.rows[j][req.sort_by.v], req.descending)
                   \/ \E k \in DOMAIN res.rows : res.rows[k][req.sort_by.v] = df.rows[j][req.sort_by.v]
         /\ (~req.sort_by.some /\ ~req.select.some) =>
              res.rows = SubSeq(PassingRows, 1, Len(res.rows))

\* A sorted query cut by its limit whose first row is not the store's first row.
C6_Witness ==
  /\ QueryReturned
  /\ req.limit = Some(1) /\ req.sort_by.some /\ ~req.select.some
  /\ Cardinality(Passing(df, req.where)) >= 2
  /\ Len(res.rows) = 1
  /\ res.rows[1] # PassingRows[1]

\* C7: query_data and aggregate_table keep exactly the rows that satisfy every
\* predicate of the filter list; an empty list filters nothing.
C7_FiltersAreConjunction ==
  /\ (QueryReturned /\ ~req.limit.some /\ ~req.sort_by.some /\ ~req.select.some) =>
       res.rows = PassingRows
  /\ (QueryReturned /\ ~req.limit.some) =>
       Len(res.rows) = Cardinality(Passing(df, req.where))
  /\ (QueryReturned /\ ~req.limit.some /\ req.where = WhereList(<<>>)) =>
       Len(res.rows) = Len(df.rows)
  /\ (AggReturned /\ ~req.limit.some) =>
       ResultKeys = DistinctKeys(df, req.where, req.group_by)
  /\ (AggReturned /\ ~req.limit.some /\ req.where = WhereList(<<>>)) =>
       ResultKeys = {[j \in DOMAIN req.group_by |-> df.rows[i][req.group_by[j]]] : i \in DOMAIN df.rows}

\* A two-predicate list that keeps some rows and drops a row satisfying only
\* one of the two predicates.
C7_Witness ==
  /\ QueryReturned /\ ~req.limit.some
  /\ req.where.form = "list" /\ Len(req.where.exprs) = 2
  /\ Len(res.rows) >= 1
  /\ \E i \in DOMAIN df.rows :
       /\ Eval3(req.where.exprs[1], df.rows[i]) = "T"
       /\ Eval3(req.where.exprs[2], df.rows[i]) = "F"

\* C8: the result of aggregate_table is the first `limit` rows of the sorted
\* aggregation of the filtered rows: filter, then group and aggregate, then
\* sort, then limit.
C8_FilterGroupSortLimit ==
  AggReturned =>
    LET f == [cols |-> df.cols, rows |-> PassingRows]
        exprs == BuildExprs(Items, <<>>, 0).exprs
        \* the aggregation of the filtered rows: one row per key
        grouped == {GroupRow(f, req.group_by, exprs, k) : k \in DistinctKeys(df, req.where, req.group_by)}
        n == Cardinality(grouped)
        rest == grouped \ Range(res.rows)
    IN /\ res.cols = req.group_by \o [i \in DOMAIN exprs |-> exprs[i].name]
       \* the result rows are aggregated rows, each at most once
       /\ Range(res.rows) \subseteq grouped
       /\ \A i, j \in DOMAIN res.rows : res.rows[i] = res.rows[j] => i = j
       \* cut by the limit, and by nothing else
       /\ Len(res.rows) = IF ~req.limit.some THEN n
                          ELSE IF req.limit.v >= 0 THEN Min(req.limit.v, n)
                          ELSE Max(n + req.limit.v, 0)
       \* in sorted order, the rows cut off standing after the rows kept
       /\ req.sort_by.some =>
            /\ \A i \in 1..(Len(res.rows) - 1) :
                 InOrder(res.rows[i][req.sort_by.v], res.rows[i + 1][req.sort_by.v], req.descending)
            /\ \A i \in DOMAIN res.rows : \A g \in rest :
                 InOrder(res.rows[i][req.sort_by.v], g[req.sort_by.v], req.descending)

\* A sorted aggregation cut to one row whose group was built from two source
\* rows (A: 180000 + 200000).
C8_Witness ==
  /\ AggReturned
  /\ req.limit = Some(1) /\ req.sort_by = Some("total_ms")
  /\ Len(df.rows) = 3
  /\ Len(res.rows) = 1
  /\ res.rows[1]["total_ms"] = IntV(380000)

\* C9: on an empty store query_data and aggregate_table return an empty table
\* and do not raise, whatever the request holds.
C9_EmptyStoreEmptyResult ==
  ((QueryCalled \/ AggCalled) /\ IsEmpty(df)) =>
    res.kind = "table" /\ res.rows = <<>> /\ res.cols = <<>>

\* aggregate_table was called with an unsupported function and an absent
\* group-by column on a store that has columns and no rows.
C9_Witness ==
  /\ AggCalled /\ IsEmpty(df) /\ df.cols # <<>>
  /\ HasUnsupported
  /\ req.group_by = <<"genre">>
  /\ res.kind = "table"

\* C10: the summary of an empty table (an empty store, or a store none of whose
\* rows is inside the date filter) has total_records 0, listening time 0, zero
\* unique-track and unique-artist counts, no date range and an empty column
\* list, and computing it does not raise, in SpotifyDataLoader.get_summary and
\* in dataloader.get_summary alike.
InDates(row) ==
  /\ req.start_date.some => row["date"].n >= req.start_date.v
  /\ req.end_date.some => row["date"].n <= req.end_date.v

SummaryOfEmpty ==
  \/ op = "get_summary" /\ IsEmpty(df)
  \/ op = "analysis.get_summary" /\ (req.none \/ \A i \in DOMAIN df.rows : ~InDates(df.rows[i]))

C10_EmptySummaryIsZero ==
  SummaryOfEmpty =>
    /\ res.kind = "summary"
    /\ res.total_records = 0
    /\ res.total_listening_time = 0
    /\ res.unique_tracks = Some(0)
    /\ res.unique_artists = Some(0)
    /\ res.date_range = NoRange
    /\ res.columns = <<>>

\* ====================================================== schema tolerance
\* Tables that lack some of the summary's source columns: a store projected on
\* a sub-list of its columns.  "platform" stands for the columns the summary
\* never reads, so that a table lacking all five source columns still has rows.
SchemaColumns == Columns \o <<"platform">>

ColumnSubLists == {SelectRows(Columns, S, 1) \o <<"platform">> : S \in SUBSET (DOMAIN Columns)}

Project(t, cols) ==
  [cols |-> cols,
   rows |-> [i \in DOMAIN t.rows |->
               [c \in Range(cols) |-> IF c = "platform" THEN StrV("ios") ELSE t.rows[i][c]]]]

SchemaStores ==
  {Project(t, cols) : t \in {s \in Stores : ~IsEmpty(s)}, cols \in ColumnSubLists}

SchemaInit ==
  /\ df \in SchemaStores
  /\ op = "idle"
  /\ req = NoRequest
  /\ res = Ok(EmptyDf)
  /\ loader_obj = NoLoaderObj
  /\ session_state = NoSessions
  /\ cache_data = NoCache
  /\ genai_api_key = NoKey

SchemaNext ==
  \/ GetSummary
  \/ AnalysisGetSummary
  \/ Return

SchemaSpec == SchemaInit /\ [][SchemaNext]_vars

\* C11: on a non-empty table that lacks any of ms_played, date, track_uri, track
\* and artist, the summary (SpotifyDataLoader.get_summary, and
\* dataloader.get_summary over the whole table) does not raise; a statistic whose
\* source column is absent is zero or null, and the statistics whose columns are
\* present are the correct ones.
Has(c) == c \in Range(df.cols)

WholeTableSummary ==
  \/ op = "get_summary"
  \/ op = "analysis.get_summary" /\ ~req.none /\ ~req.start_date.some /\ ~req.end_date.some

C11_SummaryToleratesMissingColumns ==
  (WholeTableSummary /\ ~IsEmpty(df)) =>
    /\ res.kind = "summary"
    /\ res.total_records = Len(df.rows)
    /\ res.total_listening_time = (IF Has("ms_played") THEN TotalMinutes(df) ELSE 0)
    /\ IF Has("date")
       THEN res.date_range = DateRange(DateStr(MinCell(ColumnCells(df, "date"))),
                                       DateStr(MaxCell(ColumnCells(df, "date"))))
       ELSE res.date_range = NoRange
    /\ IF Has("track_uri") THEN res.unique_tracks = Some(NUnique(df, "track_uri"))
       ELSE IF Has("track") THEN res.unique_tracks \in {Some(NUnique(df, "track")), Some(0), NoInt}
       ELSE res.unique_tracks \in {Some(0), NoInt}
    /\ IF Has("artist") THEN res.unique_artists = Some(NUnique(df, "artist"))
       ELSE res.unique_artists \in {Some(0), NoInt}

\* C12: query_data, aggregate_table and get_summary never change the store:
\* over every step of every sequence of calls, returning or raising, _df keeps
\* its rows, their order and its columns.
C12_CallsLeaveStoreUnchanged == [][df' = df]_vars

\* A call that filtered, projected, sorted and cut a three-row store, and a call
\* that raised on one, are both behind a store that is still whole.
C12_Witness ==
  /\ Len(df.rows) = 3
  /\ \/ /\ op = "query_data" /\ IsOk(res)
        /\ req.where.form = "list" /\ Len(req.where.exprs) = 2
        /\ req.select.some /\ req.sort_by.some /\ req.limit = Some(1)
        /\ Len(res.rows) < Len(df.rows)
     \/ op = "aggregate_table" /\ ~IsOk(res)

\* ================================================================ loading
\* SpotifyDataLoader.__init__ -> initialize_data -> _read_json_files ->
\* _preprocess -> _validate_sample (src/dataloader/data_loader.py), and the
\* older loader of src/utils/data_loader.py.
MaxFiles == 2

\* sample_size of the two _validate_sample calls of _preprocess.
SampleSize == 10

TrackName == "master_metadata_track_name"
ArtistName == "master_metadata_album_artist_name"
TrackUri == "spotify_track_uri"

\* One record of a source file.  ts is IntV(d) for a timestamp string that
\* strptime parses (d the day it falls on in the loader's timezone) and a StrV
\* for a string it cannot parse; ms is the duration cell, whatever its name;
\* platform stands for the fields that JsonTrackRecord takes as Optional and
\* Track requires (platform, conn_country).
RawRecord(ts, ms, track, artist, uri, platform) ==
  [ts |-> ts, ms |-> ms, track |-> track, artist |-> artist, uri |-> uri, platform |-> platform]

Play1 == RawRecord(IntV(1), IntV(180000), StrV("t1"), StrV("A"), StrV("u1"), StrV("ios"))
Play2 == RawRecord(IntV(2), IntV(200000), StrV("t2"), StrV("A"), StrV("u2"), StrV("ios"))
Play3 == RawRecord(IntV(2), IntV(150000), StrV("t1"), StrV("B"), StrV("u1"), StrV("ios"))
LocalPlay == RawRecord(IntV(1), IntV(150000), StrV("t2"), Null, Null, StrV("ios"))
Podcast == RawRecord(IntV(1), IntV(60000), Null, Null, Null, StrV("ios"))
ZeroPlay == RawRecord(IntV(2), IntV(0), StrV("t1"), StrV("A"), StrV("u1"), StrV("ios"))
ZeroPlayBadTs == RawRecord(StrV("bad"), IntV(0), StrV("t1"), StrV("A"), StrV("u1"), StrV("ios"))
NullMsPlay == RawRecord(IntV(1), Null, StrV("t2"), StrV("A"), StrV("u2"), StrV("ios"))
PlayBadTs == RawRecord(StrV("bad"), IntV(150000), StrV("t1"), StrV("B"), StrV("u1"), StrV("ios"))
NoPlatformPlay == RawRecord(IntV(2), IntV(200000), StrV("t2"), StrV("A"), StrV("u2"), Null)

\* A file of the directory: it parses or not, names its duration field
\* ms_played or msPlayed, and holds records.
File(ms_col, records) == [parses |-> TRUE, ms_col |-> ms_col, records |-> records]
Corrupt == [parses |-> FALSE, ms_col |-> "ms_played", records |-> <<>>]

SourceFiles ==
  { File("ms_played", <<Play1, Podcast, ZeroPlay>>),
    File("msPlayed", <<Play2, Play3>>),
    Corrupt,
    File("ms_played", <<ZeroPlayBadTs, Play2>>),
    File("ms_played", <<LocalPlay>>),
    File("ms_played", <<NullMsPlay, Play3>>),
    File("msPlayed", <<Podcast>>),
    File("ms_played", <<PlayBadTs>>),
    File("ms_played", <<NoPlatformPlay>>) }

\* directory.glob(pattern): the matching files, in the order glob yields them.
Directories == SeqsUpTo(SourceFiles, MaxFiles)

FileColumns(f) == <<"ts", f.ms_col, TrackName, ArtistName, TrackUri, "platform">>

\* pl.read_json(file)
read_json(f) ==
  [cols |-> FileColumns(f),
   rows |-> [i \in DOMAIN f.records |->
               [c \in Range(FileColumns(f)) |->
                  CASE c = "ts" -> f.records[i].ts
                    [] c = f.ms_col -> f.records[i].ms
                    [] c = TrackName -> f.records[i].track
                    [] c = ArtistName -> f.records[i].artist
                    [] c = TrackUri -> f.records[i].uri
                    [] OTHER -> f.records[i].platform]]]

\* A row widened to the columns `cols`: null where it has no value.
Widen(row, have, cols) == [c \in Range(cols) |-> IF c \in Range(have) THEN row[c] ELSE Null]

\* pl.concat(dfs, how="diagonal_relaxed"): the union of the columns, the rows
\* of every frame in order, null for the columns a frame lacks.
RECURSIVE Concat(_)
Concat(dfs) ==
  IF Len(dfs) = 1 THEN dfs[1]
  ELSE LET a == Concat(SubSeq(dfs, 1, Len(dfs) - 1))
           b == dfs[Len(dfs)]
           cols == a.cols \o SelectRows(b.cols, {i \in DOMAIN b.cols : b.cols[i] \notin Range(a.cols)}, 1)
       IN [cols |-> cols,
           rows |-> [i \in DOMAIN a.rows |-> Widen(a.rows[i], a.cols, cols)]
                    \o [i \in DOMAIN b.rows |-> Widen(b.rows[i], b.cols, cols)]]

\* What a step of the load leaves behind: whether it raised, the frame it built,
\* and the error and warning records it logged.
Built(t, errors, warnings) ==
  [raised |-> FALSE, err |-> "", what |-> "", df |-> t, errors |-> errors, warnings |-> warnings]
Failed(e, what, errors, warnings) ==
  [raised |-> TRUE, err |-> e, what |-> what, df |-> EmptyDf, errors |-> errors, warnings |-> warnings]

\* Mutant of read_json_files: a file that fails to parse ends the load.
read_json_files_abort(files) ==
  IF files = <<>> THEN Built(EmptyDf, 0, 1)
  ELSE IF \E i \in DOMAIN files : ~files[i].parses
  THEN Failed("ComputeError", "read_json", 1, 0)
  ELSE Built(Concat([i \in DOMAIN files |-> read_json(files[i])]), 0, 0)

\* _read_json_files: every file that parses is read, a file that does not is
\* logged as an error and skipped; no file, or no file that parses, gives
\* pl.DataFrame() and a warning.
read_json_files(files) ==
  LET parsed == SelectRows(files, {i \in DOMAIN files : files[i].parses}, 1)
      failures == Len(files) - Len(parsed)
  IN IF files = <<>> THEN Built(EmptyDf, 0, 1)
     ELSE IF parsed = <<>> THEN Built(EmptyDf, failures, 1)
     ELSE Built(Concat([i \in DOMAIN parsed |-> read_json(parsed[i])]), failures, 0)

\* DataFrame.rename({old: new})
DfRename(t, old, new) ==
  LET cols == [i \in DOMAIN t.cols |-> IF t.cols[i] = old THEN new ELSE t.cols[i]]
  IN [cols |-> cols,
      rows |-> [i \in DOMAIN t.rows |->
                  [c \in Range(cols) |-> IF c = new THEN t.rows[i][old] ELSE t.rows[i][c]]]]

\* `if "ms_played" not in columns and "msPlayed" in columns: rename`
NormalizeDuration(t) ==
  IF "ms_played" \notin Range(t.cols) /\ "msPlayed" \in Range(t.cols)
  THEN DfRename(t, "msPlayed", "ms_played")
  ELSE t

\* JsonTrackRecord.model_validate(row): ts, ms_played, track name, artist name
\* and track uri are required and not Optional.
JsonTrackRecordValid(row) ==
  /\ "ms_played" \in DOMAIN row /\ row["ms_played"].k = "int"
  /\ ~IsNull(row["ts"])
  /\ ~IsNull(row[TrackName]) /\ ~IsNull(row[ArtistName]) /\ ~IsNull(row[TrackUri])

\* Track.model_validate(row) on a processed row: no field is Optional.
TrackValid(row) ==
  /\ row["ms_played"].k = "int"
  /\ ~IsNull(row["track"]) /\ ~IsNull(row["artist"]) /\ ~IsNull(row["track_uri"])
  /\ ~IsNull(row["platform"])

\* df.head(sample_size) if df.height <= sample_size else df.sample(n=sample_size)
Samples(rows, sample_size) ==
  IF Len(rows) <= sample_size THEN {rows}
  ELSE {[i \in 1..sample_size |-> rows[p[i]]] :
          p \in {q \in [1..sample_size -> DOMAIN rows] : \A i, j \in DOMAIN q : q[i] = q[j] => i = j}}

\* Mutant of validate_sample: without strict validation a failure is not logged.
validate_sample_silent(rows, model_class, sample_size, strict_validation) ==
  IF rows = <<>> THEN {Built(EmptyDf, 0, 0)}
  ELSE UNION
    {IF \E i \in DOMAIN s : ~(IF model_class = "Track" THEN TrackValid(s[i]) ELSE JsonTrackRecordValid(s[i]))
     THEN IF strict_validation
          THEN {Failed(e, model_class, 1, 0) : e \in {"ValidationError", "TypeError"}}
          ELSE {Built(EmptyDf, 0, 0)}
     ELSE {Built(EmptyDf, 0, 0)} : s \in Samples(rows, sample_size)}

\* _validate_sample: nothing for an empty frame; otherwise a sample is checked
\* against the model and a failure is logged as a warning, or with
\* strict_validation logged as an error and raised.  `raise
\* ValidationError(err_msg)` builds a pydantic ValidationError from a string,
\* which raises that error or a TypeError depending on the pydantic build.
validate_sample(rows, model_class, sample_size, strict_validation) ==
  IF rows = <<>> THEN {Built(EmptyDf, 0, 0)}
  ELSE UNION
    {IF \E i \in DOMAIN s : ~(IF model_class = "Track" THEN TrackValid(s[i]) ELSE JsonTrackRecordValid(s[i]))
     THEN IF strict_validation
          THEN {Failed(e, model_class, 1, 0) : e \in {"ValidationError", "TypeError"}}
          ELSE {Built(EmptyDf, 0, 1)}
     ELSE {Built(EmptyDf, 0, 0)} : s \in Samples(rows, sample_size)}

\* The rows of the filter of stage 2: track name not null and ms_played > 0.
KeptRows(t) ==
  SelectRows(t.rows, {i \in DOMAIN t.rows :
                        /\ ~IsNull(t.rows[i][TrackName])
                        /\ t.rows[i]["ms_played"].k = "int" /\ t.rows[i]["ms_played"].n > 0}, 1)

\* A processed row: the columns of Row, and platform.
LoadedRow(ms, track, artist, uri, date, platform) ==
  [c \in Range(SchemaColumns) |->
     IF c = "platform" THEN platform ELSE Row(ms, track, artist, uri, date)[c]]

\* The select / with_columns of stage 3 on rows whose ts parses.
Transform(rows) ==
  [cols |-> SchemaColumns,
   rows |-> [i \in DOMAIN rows |->
               LoadedRow(rows[i]["ms_played"].n, rows[i][TrackName].s, rows[i][ArtistName],
                         rows[i][TrackUri], rows[i]["ts"].n, rows[i]["platform"])]]

\* SpotifyDataLoader._preprocess: rename, raw validation, filter, transform,
\* processed validation.
preprocess(raw, strict_validation) ==
  LET working_df == NormalizeDuration(raw)
      raw_sample_pool == SelectRows(working_df.rows,
                                    {i \in DOMAIN working_df.rows : ~IsNull(working_df.rows[i][TrackName])}, 1)
  IN UNION
    {IF v.raised THEN {v}
     ELSE IF "ms_played" \notin Range(working_df.cols)
     THEN {Failed("ColumnNotFoundError", "filter", 0, v.warnings)}
     ELSE IF \E i \in DOMAIN KeptRows(working_df) : KeptRows(working_df)[i]["ts"].k # "int"
     THEN {Failed("InvalidOperationError", "strptime", 0, v.warnings)}
     ELSE {IF p.raised THEN Failed(p.err, p.what, 1, v.warnings)
           ELSE Built(Transform(KeptRows(working_df)), 0, v.warnings + p.warnings) :
             p \in validate_sample(Transform(KeptRows(working_df)).rows, "Track", SampleSize,
                                   strict_validation)} :
       v \in validate_sample(raw_sample_pool, "JsonTrackRecord", SampleSize, strict_validation)}

\* _preprocess of src/utils/data_loader.py: rename, drop the rows without a
\* track name, select (the timestamp is parsed here), then drop the rows whose
\* ms_played is not above 0, then derive the other columns.  No validation.
utils_preprocess(raw) ==
  LET working_df == NormalizeDuration(raw)
      tracks == SelectRows(working_df.rows,
                           {i \in DOMAIN working_df.rows : ~IsNull(working_df.rows[i][TrackName])}, 1)
  IN IF "ms_played" \notin Range(working_df.cols)
     THEN {Failed("ColumnNotFoundError", "select", 0, 0)}
     ELSE IF \E i \in DOMAIN tracks : tracks[i]["ts"].k # "int"
     THEN {Failed("InvalidOperationError", "strptime", 0, 0)}
     ELSE {Built(Transform(KeptRows(working_df)), 0, 0)}

\* The two loader classes.
Loaders == {"dataloader", "utils"}

\* `if df.is_empty(): pl.DataFrame() else: self._preprocess(df)`: the frames
\* initialize_data can assign, or the error it lets through.
BuildStore(impl, strict_validation, raw) ==
  IF IsEmpty(raw) THEN {Built(EmptyDf, 0, 0)}
  ELSE IF impl = "utils" THEN utils_preprocess(raw)
  ELSE preprocess(raw, strict_validation)

\* initialize_data as one call: read, then build.
initialize_data(impl, strict_validation, files) ==
  LET r == read_json_files(files)
  IN {[o EXCEPT !.errors = o.errors + r.errors, !.warnings = o.warnings + r.warnings] :
        o \in BuildStore(impl, strict_validation, r.df)}

\* ----------------------------------------------- construction, step by step
\* loader_obj is the SpotifyDataLoader a caller is constructing (handle_zip_upload
\* of app/main_page.py): its arguments, the local frame of initialize_data
\* (work), its _df (NoDf is None) and what it has logged.  df is the table of
\* the loader that readers reach through the session; it is replaced when the
\* caller stores the new loader.  One replacement is followed from its start to
\* its end, with readers running at every point of it.
NoDf == [some |-> FALSE, t |-> EmptyDf]
SomeDf(t) == [some |-> TRUE, t |-> t]

\* The table of the loader in use before a replacement.
OldStores == {EmptyDf, [cols |-> Columns, rows |-> <<Row(200000, "t2", StrV("A"), StrV("u2"), 2)>>]}

\* __init__: the arguments are stored and _df is set to None.
Construct ==
  /\ loader_obj.pc = "none"
  /\ \E impl \in Loaders, strict \in BOOLEAN, files \in Directories :
       /\ impl = "utils" => ~strict
       /\ loader_obj' = [pc |-> "init", impl |-> impl, strict_validation |-> strict,
                         files |-> files, work |-> EmptyDf, df |-> NoDf,
                         errors |-> 0, warnings |-> 0, err |-> ""]
  /\ UNCHANGED <<df, op, req, res, session_state, cache_data, genai_api_key>>

\* initialize_data, first statement: df = self._read_json_files(...)
ReadJsonFiles ==
  /\ loader_obj.pc = "init"
  /\ LET r == read_json_files(loader_obj.files)
     IN loader_obj' = [loader_obj EXCEPT !.pc = "read", !.work = r.df,
                                         !.errors = r.errors, !.warnings = r.warnings]
  /\ UNCHANGED <<df, op, req, res, session_state, cache_data, genai_api_key>>

\* Mutant of AssignStore: the raw frame is stored and handed to the readers
\* before it is preprocessed.
AssignStore_raw ==
  /\ loader_obj.pc = "read"
  /\ loader_obj' = [loader_obj EXCEPT !.pc = "built", !.df = SomeDf(loader_obj.work)]
  /\ df' = loader_obj.work
  /\ UNCHANGED <<op, req, res, session_state, cache_data, genai_api_key>>

\* initialize_data, the if/else: self._df = pl.DataFrame() or
\* self._df = self._preprocess(df); an error of _preprocess leaves __init__.
AssignStore ==
  /\ loader_obj.pc = "read"
  /\ \E o \in BuildStore(loader_obj.impl, loader_obj.strict_validation, loader_obj.work) :
       loader_obj' = [loader_obj EXCEPT
                        !.pc = IF o.raised THEN "raised" ELSE "built",
                        !.df = IF o.raised THEN NoDf ELSE SomeDf(o.df),
                        !.err = o.err,
                        !.errors = @ + o.errors,
                        !.warnings = @ + o.warnings]
  /\ UNCHANGED <<df, op, req, res, session_state, cache_data, genai_api_key>>

\* main_page: st.session_state["loader"] = loader_obj; inject_shared_loader.
Publish ==
  /\ loader_obj.pc = "built"
  /\ df' = loader_obj.df.t
  /\ loader_obj' = [loader_obj EXCEPT !.pc = "stored"]
  /\ UNCHANGED <<op, req, res, session_state, cache_data, genai_api_key>>

\* main_page: `except Exception as e: st.error(...)`; the loader in use stays.
Discard ==
  /\ loader_obj.pc = "raised"
  /\ loader_obj' = [loader_obj EXCEPT !.pc = "dropped"]
  /\ UNCHANGED <<df, op, req, res, session_state, cache_data, genai_api_key>>

LoadInit ==
  /\ df \in OldStores
  /\ op = "idle"
  /\ req = NoRequest
  /\ res = Ok(EmptyDf)
  /\ loader_obj = NoLoaderObj
  /\ session_state = NoSessions
  /\ cache_data = NoCache
  /\ genai_api_key = NoKey

LoadNext ==
  \/ Construct
  \/ ReadJsonFiles
  \/ AssignStore
  \/ Publish
  \/ Discard
  \/ GetSummary
  \/ Return

LoadSpec == LoadInit /\ [][LoadNext]_vars

\* ------------------------------------------------------------ load claims
\* initialize_data has run to its end: _df is assigned, or _preprocess raised.
Loaded == loader_obj.pc \in {"built", "raised", "stored", "dropped"}
LoadRaised == loader_obj.pc \in {"raised", "dropped"}

\* A record the load is to drop: no track title, or a duration that is not > 0.
Droppable(rec) == IsNull(rec.track) \/ rec.ms.k # "int" \/ rec.ms.n <= 0

\* The directory without the records the load is to drop.
WithoutDroppable(files) ==
  [i \in DOMAIN files |->
     [parses |-> files[i].parses, ms_col |-> files[i].ms_col,
      records |-> SelectRows(files[i].records,
                             {j \in DOMAIN files[i].records : ~Droppable(files[i].records[j])}, 1)]]

\* C13: after a load every row of the store has a non-null track title and a
\* duration > 0, and the rows that fail either condition are dropped before
\* anything else looks at them, so that they never make the load fail: a load
\* that raises also raises on the same directory without those rows.
C13_DroppedRowsNeverFailLoad ==
  Loaded =>
    /\ loader_obj.df.some =>
         \A i \in DOMAIN loader_obj.df.t.rows :
           /\ ~IsNull(loader_obj.df.t.rows[i]["track"])
           /\ loader_obj.df.t.rows[i]["ms_played"].n > 0
    /\ LoadRaised =>
         \A o \in initialize_data(loader_obj.impl, loader_obj.strict_validation,
                                  WithoutDroppable(loader_obj.files)) : o.raised

\* The files of the directory that parse, in order.
Parseable(files) == SelectRows(files, {i \in DOMAIN files : files[i].parses}, 1)

\* C14: a file that fails to parse never makes the construction raise: it is
\* logged as an error and skipped, and the load ends exactly as the load of the
\* files that parse ends (same store, or same error of a later stage); with no
\* file, or no file that parses, the store is the empty table, on which
\* query_data and aggregate_table return the empty table and get_summary the
\* summary of no records.
C14_UnreadableFilesAreSkipped ==
  Loaded =>
    LET good == Parseable(loader_obj.files)
        skipped == Len(loader_obj.files) - Len(good)
    IN /\ \E o \in initialize_data(loader_obj.impl, loader_obj.strict_validation, good) :
            /\ o.raised = LoadRaised
            /\ o.err = loader_obj.err
            /\ ~o.raised => loader_obj.df = SomeDf(o.df)
            /\ loader_obj.errors = o.errors + skipped
            /\ loader_obj.warnings = o.warnings
       /\ good = <<>> =>
            /\ ~LoadRaised
            /\ loader_obj.df = SomeDf(EmptyDf)
            /\ \A r \in QueryRequests : query_data(loader_obj.df.t, r) = {Ok(EmptyDf)}
            /\ \A r \in AggRequests : \A b \in StrAggBuilds :
                 aggregate_table(loader_obj.df.t, r, b) = {Ok(EmptyDf)}
            /\ get_summary(loader_obj.df.t).kind = "summary"
            /\ get_summary(loader_obj.df.t).total_records = 0

\* A directory of a file that fails to parse and a file that parses was loaded:
\* one error logged, the rows of the other file in the store.
C14_Witness ==
  /\ Loaded
  /\ Len(loader_obj.files) = 2
  /\ ~loader_obj.files[1].parses /\ loader_obj.files[2].parses
  /\ loader_obj.errors = 1
  /\ loader_obj.df.some /\ Len(loader_obj.df.t.rows) = 2

\* C15: when every file names its duration field ms_played or msPlayed, every
\* record with a track title and a duration > 0 is in the store, its duration
\* in the ms_played column, also when files of both names are loaded together.
C15_BothDurationNamesLoad ==
  (Loaded /\ ~LoadRaised) =>
    \A i \in DOMAIN loader_obj.files :
      loader_obj.files[i].parses =>
        \A j \in DOMAIN loader_obj.files[i].records :
          LET rec == loader_obj.files[i].records[j]
          IN ~Droppable(rec) =>
               \E k \in DOMAIN loader_obj.df.t.rows :
                 loader_obj.df.t.rows[k] =
                   LoadedRow(rec.ms.n, rec.track.s, rec.artist, rec.uri, rec.ts.n, rec.platform)

\* C16: when a sampled row fails validation, raw or processed, the outcome is a
\* function of strict_validation alone.  Without it a warning is logged for
\* every failed sample and the load ends exactly as the stages other than
\* validation end (the same store, or the same error of theirs); with it an
\* error is logged, the construction raises and _df is never assigned.  Either
\* way the failure leaves a log record.
\* The stages of _preprocess other than validation.
Unvalidated(raw) ==
  LET working_df == NormalizeDuration(raw)
  IN IF "ms_played" \notin Range(working_df.cols)
     THEN Failed("ColumnNotFoundError", "filter", 0, 0)
     ELSE IF \E i \in DOMAIN KeptRows(working_df) : KeptRows(working_df)[i]["ts"].k # "int"
     THEN Failed("InvalidOperationError", "strptime", 0, 0)
     ELSE Built(Transform(KeptRows(working_df)), 0, 0)

\* The raw sample (every row with a track name, up to SampleSize of them) holds
\* a row that JsonTrackRecord rejects.
RawSampleFails ==
  LET working_df == NormalizeDuration(loader_obj.work)
  IN \E i \in DOMAIN working_df.rows :
       /\ ~IsNull(working_df.rows[i][TrackName])
       /\ ~JsonTrackRecordValid(working_df.rows[i])

\* The processed frame was built and its sample holds a row that Track rejects.
ProcessedSampleFails ==
  /\ ~Unvalidated(loader_obj.work).raised
  /\ \E i \in DOMAIN Unvalidated(loader_obj.work).df.rows :
       ~TrackValid(Unvalidated(loader_obj.work).df.rows[i])

\* The current loader ran _preprocess on a frame of at most SampleSize rows, so
\* that each sample is the head of its frame: every row of it is a sampled row.
Validated ==
  /\ Loaded /\ loader_obj.impl = "dataloader"
  /\ ~IsEmpty(loader_obj.work) /\ Len(loader_obj.work.rows) <= SampleSize

C16_ValidationFollowsStrictSetting ==
  (Validated /\ (RawSampleFails \/ ProcessedSampleFails)) =>
    IF loader_obj.strict_validation
    THEN /\ LoadRaised
         /\ ~loader_obj.df.some
         /\ loader_obj.err \in {"ValidationError", "TypeError"}
         /\ loader_obj.errors >= 1
    ELSE /\ loader_obj.warnings = (IF RawSampleFails THEN 1 ELSE 0)
                                  + (IF ProcessedSampleFails THEN 1 ELSE 0)
         /\ LoadRaised = Unvalidated(loader_obj.work).raised
         /\ loader_obj.err = Unvalidated(loader_obj.work).err
         /\ ~LoadRaised => loader_obj.df = SomeDf(Unvalidated(loader_obj.work).df)

\* Without strict validation a load whose raw and processed samples both held a
\* rejected row logged two warnings and built its store.
C16_Witness ==
  /\ Validated /\ ~loader_obj.strict_validation
  /\ RawSampleFails /\ ProcessedSampleFails
  /\ loader_obj.warnings = 2
  /\ loader_obj.df.some /\ Len(loader_obj.df.t.rows) >= 2

\* C17: the table readers reach changes in one step only, the step that stores
\* the constructed loader, and what that step installs is the completely built
\* table of the new directory; at every other step of a replacement, with
\* readers running in between, the table is the old one, whole.
C17_ReplacementIsAtomic ==
  [][df' # df =>
       /\ loader_obj.pc = "built" /\ loader_obj'.pc = "stored"
       /\ \E o \in initialize_data(loader_obj.impl, loader_obj.strict_validation, loader_obj.files) :
            ~o.raised /\ df' = o.df]_vars

\* A reader got the summary of the old one-row table while the new loader,
\* already built from two files, was not yet stored.
C17_Witness ==
  /\ loader_obj.pc = "built"
  /\ Len(loader_obj.files) = 2 /\ Len(loader_obj.df.t.rows) >= 2
  /\ Len(df.rows) = 1
  /\ op = "get_summary" /\ res.kind = "summary" /\ res.total_records = 1

\* ================================================ the three aggregation entries
\* The first argument of the functions of analysis_functions as their callers
\* pass it: None, a frame, or (track_analysis.py:48) the loader object itself.
NoneArg == [none |-> TRUE, frame |-> FALSE, t |-> EmptyDf]
FrameArg(t) == [none |-> FALSE, frame |-> TRUE, t |-> t]
LoaderArg(t) == [none |-> FALSE, frame |-> FALSE, t |-> t]

\* analysis_functions.aggregate_table(df, group_by, metrics, where, sort_by,
\* descending, limit): the loop of the loader's method without its logger, so
\* the outcome carries no warning.  A loader object has no is_empty.
analysis_aggregate_table(arg, r, strAgg) ==
  IF arg.none THEN {Ok(EmptyDf)}
  ELSE IF ~arg.frame THEN {Raise("AttributeError", "is_empty")}
  ELSE IF IsEmpty(arg.t) THEN {Ok(EmptyDf)}
  ELSE LET f == ApplyWhere(arg.t, r.where)
           b == BuildExprs(NormalizeSpecs(r.metrics), <<>>, 0)
       IN IF ~IsOk(f) THEN {f}
          ELSE IF b.raised THEN {Raise("ValueError", b.func)}
          ELSE {WithWarnings(LimitStep(s, r.limit), 0) :
                  s \in UNION {SortStep(g, r.sort_by, r.descending) :
                                 g \in GroupByAgg(f, r.group_by, b.exprs, strAgg)}}

\* str() of a (function, alias) tuple.
TupleRepr(spec) == "('" \o spec.func \o "', '" \o spec.alias \o "')"

\* tuple(spec) of a two-element list.  Two strings make (function, alias); an
\* element that is itself a tuple lands in the function or alias position, where
\* it is carried by its text.
TupleOf(specs) ==
  Pair(IF specs[1].form = "pair" THEN TupleRepr(specs[1]) ELSE specs[1].func,
       IF specs[2].form = "pair" THEN TupleRepr(specs[2]) ELSE specs[2].func)

\* `processed_metrics[col] = tuple(spec) if isinstance(spec, list) and
\* len(spec) == 2 else spec`.
ProcessMetrics(metrics) ==
  [i \in DOMAIN metrics |->
     IF metrics[i].list /\ Len(metrics[i].specs) = 2
     THEN One(metrics[i].col, TupleOf(metrics[i].specs))
     ELSE metrics[i]]

\* result.to_dicts(): the rows, each a dict from column name to value.
to_dicts(o) ==
  IF IsOk(o) THEN [kind |-> "dicts", cols |-> <<>>, rows |-> o.rows, err |-> "", what |-> "",
                   warnings |-> o.warnings]
  ELSE o

\* SpotifyQueryTools.free_aggregate(group_by, metrics, where, sort_by,
\* descending, limit) on the tools' loader.
free_aggregate(t, r, strAgg) ==
  {to_dicts(o) : o \in aggregate_table(t, [r EXCEPT !.metrics = ProcessMetrics(r.metrics)], strAgg)}

\* Metrics the tool is called with: one spec, and lists of one, two and three
\* specs, of bare names and of pairs.
ToolMetrics ==
  { <<One("ms_played", Bare("sum"))>>,
    <<One("ms_played", Pair("sum", "total_ms"))>>,
    <<Many("ms_played", <<Bare("sum")>>)>>,
    <<Many("artist", <<Pair("count", "n")>>)>>,
    <<Many("ms_played", <<Bare("sum"), Bare("mean")>>)>>,
    <<Many("track", <<Pair("count", "num_plays"), Pair("n_unique", "unique_tracks")>>)>>,
    <<Many("track", <<Bare("count"), Pair("n_unique", "u"), Bare("n_unique")>>)>>,
    <<Many("track", <<Pair("count", "num_plays"), Pair("count", "num_plays")>>),
      One("ms_played", Bare("sum"))>> }

\* where is left None: the tool takes it as text and the method as an expression.
ToolRequests ==
  {[group_by |-> g, metrics |-> m, where |-> NoWhere, sort_by |-> so.sort_by,
    descending |-> so.descending, limit |-> l] :
     g \in {<<"artist">>, <<"artist", "date">>}, m \in ToolMetrics,
     so \in {[sort_by |-> NoName, descending |-> TRUE], [sort_by |-> Some("artist"), descending |-> FALSE]},
     l \in {NoInt, Some(1)}}

AnalysisRequests == {r \in AggRequests : r.metrics \in NamingMetrics}

AnalysisAggregateTable ==
  /\ op = "idle"
  /\ \E r \in AnalysisRequests, b \in StrAggBuilds, arg \in {NoneArg, FrameArg(df)} :
       \E o \in analysis_aggregate_table(arg, r, b) :
         /\ op' = "analysis.aggregate_table"
         /\ req' = r
         /\ res' = o
         /\ UNCHANGED <<df, loader_obj, session_state, cache_data, genai_api_key>>

FreeAggregate ==
  /\ op = "idle"
  /\ \E r \in ToolRequests, b \in StrAggBuilds :
       \E o \in free_aggregate(df, r, b) :
         /\ op' = "free_aggregate"
         /\ req' = r
         /\ res' = o
         /\ UNCHANGED <<df, loader_obj, session_state, cache_data, genai_api_key>>

\* Stores of up to two events.
ApiStores == {t \in Stores : Len(t.rows) <= 2}

ApiInit ==
  /\ df \in ApiStores
  /\ op = "idle"
  /\ req = NoRequest
  /\ res = Ok(EmptyDf)
  /\ loader_obj = NoLoaderObj
  /\ session_state = NoSessions
  /\ cache_data = NoCache
  /\ genai_api_key = NoKey

ApiNext ==
  \/ AggregateTable
  \/ AnalysisAggregateTable
  \/ FreeAggregate
  \/ Return

ApiSpec == ApiInit /\ [][ApiNext]_vars

\* The specs of the request whose resolved name an earlier spec already took.
Collisions ==
  {j \in DOMAIN Items :
     \E i \in DOMAIN Items :
       i < j /\ AliasName(Items[i].col, Items[i].spec) = AliasName(Items[j].col, Items[j].spec)}

\* The call went through its loop over the metrics and returned a grouped table.
LoopCompleted == IsOk(res) /\ res.cols # <<>>

\* C19: a call of either aggregation implementation, the loader's method or the
\* module-level function, that returns a grouped table has logged exactly one
\* warning per spec whose resolved name was already taken by an earlier spec of
\* the request, and none when the names are distinct.
C19_EveryImplementationWarns ==
  (op \in {"aggregate_table", "analysis.aggregate_table"} /\ LoopCompleted) =>
    res.warnings = Cardinality(Collisions)

\* C20: free_aggregate returns the rows that aggregate_table returns for the
\* same group-by columns, metrics, sort and limit, or fails as it fails,
\* whatever the metrics mapping: single specs and lists of one, two or more.
C20_FreeAggregateMatchesAggregateTable ==
  op = "free_aggregate" =>
    \E b \in StrAggBuilds : \E o \in aggregate_table(df, req, b) : res = to_dicts(o)

\* ===================================================== browser sessions (app/)
\* Several browser sessions of the Streamlit app run against one server
\* process, each script run on a thread of its own.  session_state[s] is
\* st.session_state of session s, cache_data the process-wide store behind
\* st.cache_data, genai_api_key the key that genai.configure last set in the
\* google.generativeai module, and df the history under
\* settings.spotify_data_path that a session without an upload falls back to.
\* op and res hold the page the last script run rendered and for whom.
Sessions == {1, 2}

\* settings.gemini_api_key when the server configures none.
EnvKey == ""

\* st.session_state.get("agent_llm") is None.
NoLlm == ""

\* The key each user has, and the keys the provider accepts.
UserKey(s) == IF s = 1 THEN "key-1" ELSE "key-2"
ValidKeys == {"key-1"}
KeyStatus(key) == IF key \in ValidKeys THEN "valid" ELSE "invalid"

\* The keys of st.session_state the claims are about, before a session has done
\* anything: loader, gemini_api_key, auth_cache (the entry
\* auth_cache_gemini_<sha256 of the user's key>, "unchecked" when absent),
\* agent_tools (the loader the tools were built on), agent_llm (the key the LLM
\* client was built with); pc is where the session's script run stands inside
\* validate_api_key.
FreshSession ==
  [loader |-> NoDf, gemini_api_key |-> NoKey, auth_cache |-> "unchecked", pc |-> "idle",
   agent_tools |-> NoDf, agent_llm |-> NoLlm]

\* No script of the session is running, and the sidebar of its next run finds
\* the status of its key in the session: the run goes on to the page.
Settled(ss) == ss.pc = "idle" /\ (ss.gemini_api_key = NoKey \/ ss.auth_cache # "unchecked")

\* resolve_api_key: session > env.
resolve_api_key(ss) == IF ss.gemini_api_key # NoKey THEN ss.gemini_api_key ELSE EnvKey

\* resolve_data_loader: the session's loader, else (the injected global is None
\* under Streamlit) a loader on the server's data path, whose table is fs.
resolve_data_loader(ss, fs) == IF ss.loader.some THEN ss.loader ELSE SomeDf(fs)

\* get_llm: a client built with the resolved key, or None without a key.
get_llm(ss) == IF resolve_api_key(ss) = NoKey THEN NoLlm ELSE resolve_api_key(ss)

\* get_resources, Streamlit branch: build tools and LLM when either is None and
\* keep them in the session.
get_resources(ss, fs) ==
  IF ss.agent_llm = NoLlm \/ ~ss.agent_tools.some
  THEN [ss EXCEPT !.agent_tools = resolve_data_loader(ss, fs), !.agent_llm = get_llm(ss)]
  ELSE ss

\* reset_resources, Streamlit branch.
reset_resources(ss) == [ss EXCEPT !.agent_tools = NoDf, !.agent_llm = NoLlm]

\* date.fromisoformat of the strings get_summary reports.
DateOf(str) == CASE str = "2024-01-15" -> 1 [] str = "2024-02-10" -> 2 [] OTHER -> 0

\* The top-k request of get_top_artists and of get_top_tracks.
TopArtistsRequest(k, start_date, end_date) ==
  [group_by |-> <<"artist">>,
   metrics |-> <<One("ms_played", Pair("sum", "total_ms")),
                 Many("track", <<Pair("count", "total_tracks_played"),
                                 Pair("n_unique", "unique_listened_tracks")>>)>>,
   where |-> WhereList(DateFilters(start_date, end_date)),
   sort_by |-> Some("total_ms"), descending |-> TRUE, limit |-> Some(k)]

TopTracksRequest(k, start_date, end_date) ==
  [group_by |-> <<"track", "artist", "album">>,
   metrics |-> <<One("track", Pair("count", "play_count")), One("ms_played", Pair("sum", "total_ms"))>>,
   where |-> WhereList(DateFilters(start_date, end_date)),
   sort_by |-> Some("play_count"), descending |-> TRUE, limit |-> Some(k)]

\* round(unique / total, 2), in hundredths.
Ratio(unique, total) ==
  IF total = 0 THEN Null ELSE RatV((200 * unique + total) \div (2 * total), 100)

\* result.with_columns(minutes_played, hours_played, ratio_uniq_over_total)
\* .drop("total_ms") of get_top_artists; the columns are not there in the empty
\* frame of the early return.
TopArtistsColumns(o) ==
  IF ~IsOk(o) THEN o
  ELSE IF "total_ms" \notin Range(o.cols) THEN Raise("ColumnNotFoundError", "total_ms")
  ELSE Ok([cols |-> <<"artist", "total_tracks_played", "unique_listened_tracks",
                      "minutes_played", "hours_played", "ratio_uniq_over_total">>,
           rows |-> [i \in DOMAIN o.rows |->
                       [artist |-> o.rows[i]["artist"],
                        total_tracks_played |-> o.rows[i]["total_tracks_played"],
                        unique_listened_tracks |-> o.rows[i]["unique_listened_tracks"],
                        minutes_played |-> IntV(o.rows[i]["total_ms"].n \div MsPerMinute),
                        hours_played |-> IntV(o.rows[i]["total_ms"].n \div (60 * MsPerMinute)),
                        ratio_uniq_over_total |-> Ratio(o.rows[i]["unique_listened_tracks"].n,
                                                        o.rows[i]["total_tracks_played"].n)]]])

\* analysis_functions.get_top_artists(df, k, start_date, end_date).
get_top_artists(arg, k, start_date, end_date) ==
  {TopArtistsColumns(o) :
     o \in analysis_aggregate_table(arg, TopArtistsRequest(k, start_date, end_date), "null")}

\* result.with_columns(minutes_played).drop("total_ms") of get_top_tracks.
TopTracksColumns(o) ==
  IF ~IsOk(o) THEN o
  ELSE IF "total_ms" \notin Range(o.cols) THEN Raise("ColumnNotFoundError", "total_ms")
  ELSE Ok([cols |-> <<"track", "artist", "album", "play_count", "minutes_played">>,
           rows |-> [i \in DOMAIN o.rows |->
                       [track |-> o.rows[i]["track"], artist |-> o.rows[i]["artist"],
                        album |-> o.rows[i]["album"], play_count |-> o.rows[i]["play_count"],
                        minutes_played |-> IntV(o.rows[i]["total_ms"].n \div MsPerMinute)]]])

\* analysis_functions.get_top_tracks(df, k, artist=None, start_date, end_date).
get_top_tracks(arg, k, start_date, end_date) ==
  {TopTracksColumns(o) :
     o \in analysis_aggregate_table(arg, TopTracksRequest(k, start_date, end_date), "null")}

\* The bodies of the cached wrappers of track_analysis.py:
\* `return get_top_artists(_loader, ...)`, with the loader object the dashboard
\* passes, and the same for get_top_tracks.
TopArtistsCall(t, k, start_date, end_date) ==
  get_top_artists(LoaderArg(t), k, start_date, end_date)

TopTracksCall(t, k, start_date, end_date) ==
  get_top_tracks(LoaderArg(t), k, start_date, end_date)

\* The body of _get_summary_cached of dashboard.py.
SummaryCall(t, start_date, end_date) ==
  {analysis_get_summary([none |-> FALSE, t |-> t], start_date, end_date)}

\* A key of st.cache_data: the function and the hash of its arguments.  An
\* argument whose name starts with an underscore is left out of the hash
\* (t = NoDf); a frame is hashed by its content.
CacheKey(func, t, k, start_date, end_date) ==
  [func |-> func, df |-> t, k |-> k, start_date |-> start_date, end_date |-> end_date]

\* A call of a function under @st.cache_data: the stored value of the key if
\* there is one, else the value the body returns, which is stored; an exception
\* of the body is passed on and nothing is stored.
Cached(cache, key, body) ==
  IF \E e \in cache : e.key = key
  THEN {[value |-> e.value, cache |-> cache] : e \in {x \in cache : x.key = key}}
  ELSE {[value |-> v,
         cache |-> IF v.kind = "error" THEN cache ELSE cache \cup {[key |-> key, value |-> v]}] :
          v \in body}

\* A panel the script did not reach.
NotRendered == [kind |-> "none", cols |-> <<>>, rows |-> <<>>, err |-> "", what |-> "", warnings |-> 0]

\* The zip files users upload: two histories with the same date range and
\* different plays, and a zip without history files.
Uploads ==
  { <<File("ms_played", <<Play1, Play2>>)>>,
    <<File("msPlayed", <<LocalPlay, Play3>>)>>,
    <<>> }

\* The value of the "Top results to display" slider.
TopK == 5

\* "Process Uploaded Data" (main_page.py:177-191): a zip without history files
\* and a load that raises leave the session as it was; otherwise the new loader
\* is stored and the agent resources are reset.
Upload(s) ==
  /\ Settled(session_state[s])
  /\ \E files \in Uploads :
       \E o \in initialize_data("dataloader", FALSE, files) :
         session_state' =
           IF files = <<>> \/ o.raised THEN session_state
           ELSE [session_state EXCEPT ![s] = reset_resources([@ EXCEPT !.loader = SomeDf(o.df)])]
  /\ op' = "idle"
  /\ res' = Ok(EmptyDf)
  /\ UNCHANGED <<df, req, loader_obj, cache_data, genai_api_key>>

\* The user's key typed into the sidebar of a session that has none
\* (main_page.py:159-163).
EnterKey(s) ==
  /\ session_state[s].pc = "idle"
  /\ session_state[s].gemini_api_key = NoKey
  /\ session_state' = [session_state EXCEPT ![s] = reset_resources([@ EXCEPT !.gemini_api_key = UserKey(s)])]
  /\ op' = "idle"
  /\ res' = Ok(EmptyDf)
  /\ UNCHANGED <<df, req, loader_obj, cache_data, genai_api_key>>

\* validate_api_key, Gemini branch, on a key whose status is not in the
\* session: first `genai.configure(api_key=api_key)` ...
ValidateConfigure(s) ==
  /\ session_state[s].pc = "idle"
  /\ session_state[s].gemini_api_key # NoKey
  /\ session_state[s].auth_cache = "unchecked"
  /\ genai_api_key' = session_state[s].gemini_api_key
  /\ session_state' = [session_state EXCEPT ![s].pc = "configured"]
  /\ op' = "idle"
  /\ res' = Ok(EmptyDf)
  /\ UNCHANGED <<df, req, loader_obj, cache_data>>

\* ... then `genai.list_models()`, which takes no key and uses the configured
\* one; the status is stored in the session under the hash of the user's key.
ValidateListModels(s) ==
  /\ session_state[s].pc = "configured"
  /\ session_state' = [session_state EXCEPT ![s].pc = "idle",
                                            ![s].auth_cache = KeyStatus(genai_api_key)]
  /\ op' = "idle"
  /\ res' = Ok(EmptyDf)
  /\ UNCHANGED <<df, req, loader_obj, cache_data, genai_api_key>>

\* "Reset Session / Clear Data".
ResetSession(s) ==
  /\ Settled(session_state[s])
  /\ session_state' = [session_state EXCEPT
                         ![s] = reset_resources([@ EXCEPT !.loader = NoDf, !.gemini_api_key = NoKey])]
  /\ op' = "idle"
  /\ res' = Ok(EmptyDf)
  /\ UNCHANGED <<df, req, loader_obj, cache_data, genai_api_key>>

\* A script run of session s on the Dashboard page: main resolves the loader,
\* render_dashboard shows the summary of its whole table, the summary of the
\* range from the applied start date, a date inside the range of the data
\* (through _get_summary_cached when it filters anything), and
\* the two panels of render_track_artist_analysis, top artists first; an
\* exception ends the script run at the panel that raised it.
RenderDashboard(s) ==
  LET ss == session_state[s]
      t == resolve_data_loader(ss, df).t
      summary == analysis_get_summary([none |-> FALSE, t |-> t], NoInt, NoInt)
      min_d == DateOf(summary.date_range.start)
      max_d == DateOf(summary.date_range.end)
      end_date == Some(max_d)
  IN /\ Settled(ss)
     /\ ~IsEmpty(t)
     /\ \E applied_start_date \in min_d..max_d :
        LET start_date == Some(applied_start_date)
            is_filtered == start_date.v > min_d
        IN
        \E ts \in (IF is_filtered
                   THEN Cached(cache_data, CacheKey("_get_summary_cached", SomeDf(t), 0, start_date, end_date),
                               SummaryCall(t, start_date, end_date))
                   ELSE {[value |-> summary, cache |-> cache_data]}) :
          \E ta \in Cached(ts.cache, CacheKey("_get_top_artists_cached", NoDf, TopK, start_date, end_date),
                           TopArtistsCall(t, TopK, start_date, end_date)) :
            \E tt \in (IF ta.value.kind = "error" THEN {[value |-> NotRendered, cache |-> ta.cache]}
                       ELSE Cached(ta.cache, CacheKey("_get_top_tracks_cached", NoDf, TopK, start_date, end_date),
                                   TopTracksCall(t, TopK, start_date, end_date))) :
              /\ res' = [kind |-> "dashboard", session |-> s, loader |-> t,
                         start_date |-> start_date, end_date |-> end_date, is_filtered |-> is_filtered,
                         summary |-> summary, time_summary |-> ts.value,
                         top_artists |-> ta.value, top_tracks |-> tt.value]
              /\ cache_data' = tt.cache
     /\ op' = "dashboard"
     /\ UNCHANGED <<df, req, loader_obj, session_state, genai_api_key>>

\* A prompt sent on the Chatbot page by a session that has data and a key
\* whose status is "valid" (can_chat): the nodes of the agent take LLM and
\* tools from get_resources.
Chat(s) ==
  LET ss == session_state[s]
      t == resolve_data_loader(ss, df).t
  IN /\ Settled(ss)
     /\ ~IsEmpty(t)
     /\ resolve_api_key(ss) # NoKey
     /\ ss.auth_cache = "valid"
     /\ session_state' = [session_state EXCEPT ![s] = get_resources(ss, df)]
     /\ res' = [kind |-> "chat", session |-> s, loader |-> t, api_key |-> resolve_api_key(ss),
                tools |-> get_resources(ss, df).agent_tools, llm |-> get_resources(ss, df).agent_llm]
     /\ op' = "chat"
     /\ UNCHANGED <<df, req, loader_obj, cache_data, genai_api_key>>

\* ttl=15, max_entries=5: an entry leaves the cache.
CacheExpire ==
  /\ \E e \in cache_data : cache_data' = cache_data \ {e}
  /\ UNCHANGED <<df, op, req, res, loader_obj, session_state, genai_api_key>>

SessionInit ==
  /\ df \in OldStores
  /\ op = "idle"
  /\ req = NoRequest
  /\ res = Ok(EmptyDf)
  /\ loader_obj = NoLoaderObj
  /\ session_state = [s \in Sessions |-> FreshSession]
  /\ cache_data = NoCache
  /\ genai_api_key = NoKey

SessionNext ==
  \/ \E s \in Sessions : Upload(s)
  \/ \E s \in Sessions : EnterKey(s)
  \/ \E s \in Sessions : ValidateConfigure(s)
  \/ \E s \in Sessions : ValidateListModels(s)
  \/ \E s \in Sessions : ResetSession(s)
  \/ \E s \in Sessions : RenderDashboard(s)
  \/ \E s \in Sessions : Chat(s)
  \/ CacheExpire

SessionSpec == SessionInit /\ [][SessionNext]_vars

\* What the wrapped functions give on the loader the script run resolved for
\* its own session.
OwnDashboard ==
  /\ res.summary \in SummaryCall(res.loader, NoInt, NoInt)
  /\ res.time_summary \in SummaryCall(res.loader,
                                      IF res.is_filtered THEN res.start_date ELSE NoInt,
                                      IF res.is_filtered THEN res.end_date ELSE NoInt)
  /\ res.top_artists \in TopArtistsCall(res.loader, TopK, res.start_date, res.end_date)
  /\ res.top_tracks \in {NotRendered} \cup TopTracksCall(res.loader, TopK, res.start_date, res.end_date)

\* The tools and LLM a session keeps are those of its own loader and key.
OwnResources(s) ==
  /\ session_state[s].agent_tools.some =>
       session_state[s].agent_tools = resolve_data_loader(session_state[s], df)
  /\ session_state[s].agent_llm # NoLlm =>
       session_state[s].agent_llm = resolve_api_key(session_state[s])

\* The status a session holds for its key is the status of that key.
OwnKeyStatus(s) ==
  session_state[s].auth_cache # "unchecked" => session_state[s].auth_cache = KeyStatus(UserKey(s))

\* C18: whatever the sessions have done in whatever order, the dashboard a
\* session is shown (summary, summary of the selected range, top-artist and
\* top-track panel) is what the wrapped functions give on that session's own
\* loader, the tools and LLM of a chat are built on that session's own loader
\* and key, and nothing a session holds or is shown was computed from another
\* session's data or key.
C18_SessionsAreIsolated ==
  /\ op = "dashboard" => OwnDashboard
  /\ op = "chat" => res.tools = SomeDf(res.loader) /\ res.llm = res.api_key
  /\ \A s \in DOMAIN session_state : OwnResources(s) /\ OwnKeyStatus(s)

\* C30: on a non-empty store a query_data call with a projection returns what
\* the same call without the projection can return, cut down to the projected
\* columns in the caller's order: same rows, same order, whatever columns the
\* filters and the sort refer to.
C30_ProjectionCommutes ==
  (op = "query_data" /\ ~IsEmpty(df) /\ req.select.some) =>
    \E o \in query_data(df, [req EXCEPT !.select = NoNames]) : res = SelectStep(o, req.select)


\* ============================================================ agent graph
\* spotify_agent/graph.py and spotify_agent/nodes.py: one app.invoke of the
\* compiled StateGraph.  op is the node the graph runs next, req the input of
\* the run together with the last answer of the LLM (the plan, the tool calls
\* or the text it returned, or that the call raised), res the AgentState
\* together with a record of what the nodes did (trace, invocations,
\* llm_calls, labelled), which the state itself does not keep.  An answer of
\* the LLM is drawn when a node asks for it.
MaxCalls == 2
MaxFailures == 3

max_retries == 3

\* Names of the tools get_resources returns, of the tools a plan can name (the
\* plan may name a tool that tools_list does not hold) and of the tools the
\* tool-calling LLM can ask for.
ToolsList == {"get_top_artists", "get_summary"}
ToolPlans ==
  { <<>>, <<"get_top_artists">>, <<"get_lyrics">>,
    <<"get_top_artists", "get_summary">>, <<"get_top_artists", "get_lyrics">> }
CallNames == {"get_top_artists", "get_summary", "get_lyrics"}

IntentTypes == {"factual_query", "other"}

IntentPlan(intent_type, tool_plan) ==
  [intent_type |-> intent_type, reasoning |-> "reasoning", tool_plan |-> tool_plan]
NoPlan == [some |-> FALSE, v |-> IntentPlan("", <<>>)]
IntentPlans == {NoPlan} \cup {Some(IntentPlan(i, tp)) : i \in IntentTypes, tp \in ToolPlans}

\* A tool call of the LLM's response: the tool it names and how many of the
\* first invocations of that tool raise.
ToolCalls == SeqsUpTo([name : CallNames, fails : 0..MaxFailures], MaxCalls)

HumanMessage(content) ==
  [type |-> "human", content |-> content, name |-> "", tool_call_id |-> 0, tool_calls |-> <<>>]
AIMessage(content, tool_calls) ==
  [type |-> "ai", content |-> content, name |-> "", tool_call_id |-> 0, tool_calls |-> tool_calls]
ToolMessage(content, name, tool_call_id) ==
  [type |-> "tool", content |-> content, name |-> name, tool_call_id |-> tool_call_id, tool_calls |-> <<>>]

\* What a tool returns (a list of rows, long for get_top_artists) and the
\* string data_fetch puts in its place when the tool keeps raising.
Data(tool, call_id) == [kind |-> "rows", tool |-> tool, call_id |-> call_id, text |-> ""]
Text(s) == [kind |-> "str", tool |-> "", call_id |-> 0, text |-> s]

\* str(retrieved_data), cut to 1000 characters.
ObsStr(retrieved_data) ==
  IF retrieved_data.kind = "str" THEN retrieved_data.text
  ELSE IF retrieved_data.tool = "get_top_artists"
       THEN "[rows of get_top_artists][:1000]... [Results truncated]"
       ELSE "[rows of " \o retrieved_data.tool \o "]"

\* Mutant of Retry: a fourth attempt is made.
RECURSIVE Retry_four(_, _, _)
Retry_four(tool_call, call_id, attempt) ==
  LET tool_obj == tool_call.name \in ToolsList
      raises == ~tool_obj \/ attempt < tool_call.fails
      last_error == IF tool_obj THEN "tool failed" ELSE "'NoneType' object has no attribute 'invoke'"
  IN IF ~raises
     THEN [retrieved_data |-> Data(tool_call.name, call_id), attempts |-> attempt + 1]
     ELSE IF attempt = max_retries
          THEN [retrieved_data |-> Text("Error after 3 attempts: " \o last_error),
                attempts |-> attempt + 1]
          ELSE Retry_four(tool_call, call_id, attempt + 1)

\* The retry loop of data_fetch for one tool call, from the 0-based attempt on:
\* tool_executor.get gives None for a name it does not hold, and invoking None
\* raises inside the try like a failing tool.
RECURSIVE Retry(_, _, _)
Retry(tool_call, call_id, attempt) ==
  LET tool_obj == tool_call.name \in ToolsList
      raises == ~tool_obj \/ attempt < tool_call.fails
      last_error == IF tool_obj THEN "tool failed" ELSE "'NoneType' object has no attribute 'invoke'"
  IN IF ~raises
     THEN [retrieved_data |-> Data(tool_call.name, call_id), attempts |-> attempt + 1]
     ELSE IF attempt = max_retries - 1
          THEN [retrieved_data |-> Text("Error after 3 attempts: " \o last_error),
                attempts |-> attempt + 1]
          ELSE Retry(tool_call, call_id, attempt + 1)

NoRun == [messages |-> <<>>, results |-> <<>>, invocations |-> <<>>]

\* Mutant of ExecuteCalls: a skipped call still leaves an entry in results.
RECURSIVE ExecuteCalls_resultfirst(_, _, _)
ExecuteCalls_resultfirst(tool_calls, planned_tool_names, i) ==
  IF i > Len(tool_calls) THEN NoRun
  ELSE LET rest == ExecuteCalls_resultfirst(tool_calls, planned_tool_names, i + 1)
           tool_call == tool_calls[i]
           r == Retry(tool_call, i, 0)
       IN IF tool_call.name \notin planned_tool_names
          THEN [rest EXCEPT !.results = <<Text("skipped")>> \o @]
          ELSE [messages |-> <<ToolMessage(ObsStr(r.retrieved_data), tool_call.name, i)>> \o rest.messages,
                results |-> <<r.retrieved_data>> \o rest.results,
                invocations |-> <<[call |-> i, attempts |-> r.attempts]>> \o rest.invocations]

\* The loop of data_fetch over response.tool_calls, from the i-th call on: the
\* ToolMessages and results it appends and the tool invocations it makes.  The
\* id of a call is its position in the response.
RECURSIVE ExecuteCalls(_, _, _)
ExecuteCalls(tool_calls, planned_tool_names, i) ==
  IF i > Len(tool_calls) THEN NoRun
  ELSE LET rest == ExecuteCalls(tool_calls, planned_tool_names, i + 1)
           tool_call == tool_calls[i]
           r == Retry(tool_call, i, 0)
       IN IF tool_call.name \notin planned_tool_names
          THEN rest
          ELSE [messages |-> <<ToolMessage(ObsStr(r.retrieved_data), tool_call.name, i)>> \o rest.messages,
                results |-> <<r.retrieved_data>> \o rest.results,
                invocations |-> <<[call |-> i, attempts |-> r.attempts]>> \o rest.invocations]

NoToolResults == [some |-> FALSE, v |-> <<>>]
NoResponse == [some |-> FALSE, v |-> ""]

HasTools(plan) == plan.some /\ plan.v.tool_plan # <<>>

\* What data_fetch returns for the tool calls the LLM answers with: the
\* messages, the tool_results key when it is set, and whether the LLM was asked.
data_fetch(state, tool_calls) ==
  LET plan == state.plan
      planned_tool_names == Range(plan.v.tool_plan)
      available_tools == ToolsList \cap planned_tool_names
      run == ExecuteCalls(tool_calls, planned_tool_names, 1)
  IN IF ~HasTools(plan)
     THEN [messages |-> <<>>, tool_results |-> NoToolResults, invocations |-> <<>>, asked |-> FALSE]
     ELSE IF available_tools = {}
     THEN [messages |-> <<AIMessage("I planned to use some tools, but they are currently unavailable.", <<>>)>>,
           tool_results |-> NoToolResults, invocations |-> <<>>, asked |-> FALSE]
     ELSE [messages |-> (IF tool_calls # <<>> THEN <<AIMessage("", tool_calls)>> ELSE <<>>) \o run.messages,
           tool_results |-> Some(run.results), invocations |-> run.invocations, asked |-> TRUE]

IsToolMessage(m) == m.type = "tool"

\* Mutant of analyst_node: the LLM is always asked.
analyst_node_always_llm(state, content) ==
  LET tool_messages == SelectSeq(state.messages, IsToolMessage)
      tool_results == state.tool_results.v
  IN [final_response |-> content, llm_calls |-> 1,
      labelled |-> [i \in 1..Len(tool_messages) |->
                      [name |-> tool_messages[i].name,
                       result |-> IF i <= Len(tool_results) THEN tool_results[i]
                                  ELSE Text(tool_messages[i].content)]]]

\* analyst_node, content being what the LLM answers if it is asked: the
\* final_response, the number of LLM invocations and the (tool name, result)
\* pairs written into the prompt.
analyst_node(state, content) ==
  LET intent == IF state.intent = "" THEN "other" ELSE state.intent
      plan == state.plan
      tool_messages == SelectSeq(state.messages, IsToolMessage)
      tool_results == state.tool_results.v
      direct == intent = "other" /\ ~HasTools(plan)
  IN [final_response |->
        IF direct
        THEN (IF plan.some THEN plan.v.reasoning
              ELSE "I'm sorry, I can't help with that. I'm a Spotify analytics assistant.")
        ELSE content,
      llm_calls |-> IF direct THEN 0 ELSE 1,
      labelled |-> [i \in 1..Len(tool_messages) |->
                      [name |-> tool_messages[i].name,
                       result |-> IF i <= Len(tool_results) THEN tool_results[i]
                                  ELSE Text(tool_messages[i].content)]]]

\* Mutant of should_continue: the tools node is always next.
should_continue_always(state) == "continue"

should_continue(state) == IF HasTools(state.plan) THEN "continue" ELSE "end"

\* The edges build_app adds: the node that runs after a node has returned.
NextNode(node, state) ==
  CASE node = "IntentParser" ->
         (IF should_continue(state) = "continue" THEN "ToolExecute" ELSE "Analyst")
    [] node = "ToolExecute" -> "Analyst"
    [] node = "Analyst" -> "__end__"

LlmContents == {"analysis", ""}

\* The message lists app.invoke is called with: the prompt alone (examples,
\* tests) or the chat history ending with the prompt (chatbot_page).
Histories ==
  { <<HumanMessage("prompt")>>,
    <<HumanMessage("earlier"), AIMessage("answer", <<>>), HumanMessage("prompt")>> }

AgentState(input, messages) ==
  [input |-> input, messages |-> messages, intent |-> "", plan |-> NoPlan,
   tool_results |-> NoToolResults, final_response |-> NoResponse,
   trace |-> <<>>, invocations |-> <<>>, llm_calls |-> 0, labelled |-> <<>>]

\* req after the LLM has answered with one of the given plans, tool calls and
\* texts, or has raised and left no answer.
Answers(plans, tool_calls, contents) ==
  { a \in [input : {req.input}, messages : {req.messages}, plan : plans \cup {req.plan},
           tool_calls : tool_calls \cup {req.tool_calls},
           content : contents \cup {req.content}, raises : BOOLEAN] :
      IF a.raises
      THEN a.plan = req.plan /\ a.tool_calls = req.tool_calls /\ a.content = req.content
      ELSE a.plan \in plans /\ a.tool_calls \in tool_calls /\ a.content \in contents }

Raised(node) ==
  /\ op' = "__raised__"
  /\ res' = [res EXCEPT !.trace = Append(@, node)]

IntentParser ==
  /\ op = "IntentParser"
  /\ req' \in Answers(IntentPlans, {req.tool_calls}, {req.content})
  /\ IF req'.raises \/ ~req'.plan.some
     THEN Raised("IntentParser")
     ELSE /\ res' = [res EXCEPT !.intent = req'.plan.v.intent_type,
                                !.plan = req'.plan,
                                !.messages = @ \o <<AIMessage("Strategy: " \o req'.plan.v.reasoning, <<>>)>>,
                                !.trace = Append(@, "IntentParser")]
          /\ op' = NextNode("IntentParser", res')
  /\ UNCHANGED <<df, loader_obj, session_state, cache_data, genai_api_key>>

ToolExecute ==
  /\ op = "ToolExecute"
  /\ IF data_fetch(res, <<>>).asked
     THEN req' \in Answers({req.plan}, ToolCalls, {req.content})
     ELSE req' = req
  /\ LET update == data_fetch(res, req'.tool_calls)
     IN IF update.asked /\ req'.raises
        THEN Raised("ToolExecute")
        ELSE /\ res' = [res EXCEPT !.messages = @ \o update.messages,
                                   !.tool_results = IF update.tool_results.some
                                                    THEN update.tool_results ELSE @,
                                   !.invocations = update.invocations,
                                   !.trace = Append(@, "ToolExecute")]
             /\ op' = NextNode("ToolExecute", res')
  /\ UNCHANGED <<df, loader_obj, session_state, cache_data, genai_api_key>>

Analyst ==
  /\ op = "Analyst"
  /\ IF analyst_node(res, "").llm_calls > 0
     THEN req' \in Answers({req.plan}, {req.tool_calls}, LlmContents)
     ELSE req' = req
  /\ LET update == analyst_node(res, req'.content)
     IN IF update.llm_calls > 0 /\ req'.raises
        THEN Raised("Analyst")
        ELSE /\ res' = [res EXCEPT !.final_response = Some(update.final_response),
                                   !.llm_calls = update.llm_calls,
                                   !.labelled = update.labelled,
                                   !.trace = Append(@, "Analyst")]
             /\ op' = NextNode("Analyst", res')
  /\ UNCHANGED <<df, loader_obj, session_state, cache_data, genai_api_key>>

AgentInit ==
  /\ df = EmptyDf
  /\ op = "IntentParser"
  /\ \E messages \in Histories :
       /\ req = [input |-> "prompt", messages |-> messages, plan |-> NoPlan,
                 tool_calls |-> <<>>, content |-> "", raises |-> FALSE]
       /\ res = AgentState("prompt", messages)
  /\ loader_obj = NoLoaderObj
  /\ session_state = NoSessions
  /\ cache_data = NoCache
  /\ genai_api_key = NoKey

AgentNext ==
  \/ IntentParser
  \/ ToolExecute
  \/ Analyst

\* app.invoke runs the scheduled node of the graph until END is reached or a
\* node raises: a run never stops in front of a node it has scheduled.
AgentSpec == AgentInit /\ [][AgentNext]_vars /\ WF_vars(AgentNext)


\* ------------------------------------------------------ agent graph claims
Stopped == op \in {"__end__", "__raised__"}

\* The nodes a run with the parsed plan goes through.
NodeOrder ==
  IF HasTools(res.plan) THEN <<"IntentParser", "ToolExecute", "Analyst">>
  ELSE <<"IntentParser", "Analyst">>

RunInOrder ==
  /\ Len(res.trace) <= Len(NodeOrder)
  /\ res.trace = SubSeq(NodeOrder, 1, Len(res.trace))
  /\ ~Stopped => op = NodeOrder[Len(res.trace) + 1]
  /\ op = "__end__" =>
       /\ res.trace = NodeOrder
       /\ res.final_response.some
       /\ res.intent = res.plan.v.intent_type

\* C21: a run executes IntentParser, then ToolExecute exactly when the parsed
\* plan has a non-empty tool_plan, then Analyst, each at most once, and stops;
\* a run in which no node raises ends with final_response set and intent equal
\* to the plan's intent_type.
C21_GraphRunsInOrderToEnd == [](RunInOrder) /\ <>Stopped

C21_Witness ==
  /\ op = "__end__"
  /\ res.trace = <<"IntentParser", "ToolExecute", "Analyst">>
  /\ res.intent = "factual_query"

\* The tool calls of the LLM's response that data_fetch executes.
ToolMessages == SelectSeq(res.messages, IsToolMessage)
PlannedCalls == {i \in DOMAIN req.tool_calls : req.tool_calls[i].name \in Range(res.plan.v.tool_plan)}
AlwaysFails(tool_call) == tool_call.name \notin ToolsList \/ tool_call.fails >= max_retries

\* C22: every executed tool call is invoked between 1 and 3 times, stopping at
\* the first attempt that returns; when all 3 attempts raise its result is the
\* string 'Error after 3 attempts: <last error>', the calls after it are still
\* executed and the Analyst node runs.
C22_ToolCallsAreRetriedThrice ==
  /\ Len(res.invocations) = Cardinality(PlannedCalls)
  /\ \A k \in DOMAIN res.invocations :
       LET call_id == res.invocations[k].call
           tool_call == req.tool_calls[call_id]
           attempts == res.invocations[k].attempts
           result == res.tool_results.v[k]
       IN /\ call_id \in PlannedCalls
          /\ attempts \in 1..max_retries
          /\ ~AlwaysFails(tool_call) =>
               /\ attempts = tool_call.fails + 1
               /\ result = Data(tool_call.name, call_id)
          /\ AlwaysFails(tool_call) =>
               /\ attempts = max_retries
               /\ result \in {Text("Error after 3 attempts: tool failed"),
                              Text("Error after 3 attempts: 'NoneType' object has no attribute 'invoke'")}
  /\ res.invocations # <<>> => (op \in {"Analyst", "__end__"} \/ res.trace[Len(res.trace)] = "Analyst")

C22_Witness ==
  /\ op = "__end__"
  /\ Len(res.invocations) = 2
  /\ res.invocations[1].attempts = max_retries
  /\ res.tool_results.v[1] = Text("Error after 3 attempts: tool failed")
  /\ res.tool_results.v[2].kind = "rows"

\* C23: data_fetch skips the tool calls whose name is not in the plan and adds
\* one ToolMessage and one tool_results entry for every other call, so the
\* state holds as many ToolMessages as tool_results entries, the i-th of each
\* from the same call, and analyst_node labels every result with the name of
\* the tool that produced it.
C23_ToolMessagesMatchResults ==
  LET tool_results == res.tool_results.v
  IN /\ Len(ToolMessages) = Len(tool_results)
     /\ Len(ToolMessages) = Cardinality(PlannedCalls)
     /\ \A k \in DOMAIN ToolMessages :
          LET m == ToolMessages[k]
          IN /\ m.tool_call_id \in PlannedCalls
             /\ m.name = req.tool_calls[m.tool_call_id].name
             /\ tool_results[k] = Retry(req.tool_calls[m.tool_call_id], m.tool_call_id, 0).retrieved_data
             /\ m.content = ObsStr(tool_results[k])
             /\ tool_results[k].kind = "rows" => tool_results[k].tool = m.name
             /\ \A j \in 1..(k - 1) : ToolMessages[j].tool_call_id < m.tool_call_id
     /\ op = "__end__" =>
          res.labelled = [k \in DOMAIN ToolMessages |->
                            [name |-> ToolMessages[k].name, result |-> tool_results[k]]]

C23_Witness ==
  /\ op = "__end__"
  /\ Len(req.tool_calls) = 2
  /\ PlannedCalls = {2}
  /\ Len(ToolMessages) = 1
  /\ res.labelled = <<[name |-> "get_top_artists", result |-> Data("get_top_artists", 2)]>>

\* C24: with intent 'other' and a plan without tools analyst_node answers with
\* the plan's reasoning and does not invoke the LLM; in every other case it
\* invokes the LLM once and final_response is the content of that answer.
C24_DirectAnswerOnlyForOther ==
  (res.trace # <<>> /\ res.trace[Len(res.trace)] = "Analyst" /\ op = "__end__") =>
    IF res.intent = "other" /\ res.plan.v.tool_plan = <<>>
    THEN res.llm_calls = 0 /\ res.final_response = Some(res.plan.v.reasoning)
    ELSE res.llm_calls = 1 /\ res.final_response.v \in LlmContents

C24_Witness ==
  /\ op = "__end__"
  /\ res.intent = "other"
  /\ res.plan.v.tool_plan = <<>>
  /\ res.llm_calls = 0
  /\ res.final_response = Some("reasoning")


\* ======================================================= one session's page
\* app/main_page.py, app/chatbot_page.py and utils/agent_utils.py for a single
\* browser session, handler by handler.  session_state is the session's
\* st.session_state, df the history under settings.spotify_data_path, op the
\* handler of the last script run and res what the run computed.  A key that
\* is not in st.session_state and a key holding None or an empty list are not
\* told apart: the code reads them alike.
MaxPrompts == 2

Providers == {"Gemini", "OpenAI"}

\* The key the user types for a provider: the Gemini key is one the provider
\* accepts, the OpenAI key is not.
TypedKeys(provider) == IF provider = "Gemini" THEN {"key-1"} ELSE {"key-2"}

\* ChatGoogleGenerativeAI / ChatOpenAI built for a provider with a key, and None.
LlmClient(provider, api_key) == [some |-> TRUE, provider |-> provider, api_key |-> api_key]
NoClient == [some |-> FALSE, provider |-> "", api_key |-> NoKey]

\* st.session_state before the session has done anything: temp_dir says
\* whether the entry is absent or the directory it names exists or was removed.
NewSession ==
  [model_provider |-> "Gemini", gemini_api_key |-> NoKey, openai_api_key |-> NoKey,
   auth_cache |-> {}, loader |-> NoDf, temp_dir |-> "absent", messages |-> <<>>,
   agent_llm |-> NoClient, agent_tools |-> NoDf, agent_app |-> FALSE,
   applied_start_date |-> NoInt, applied_end_date |-> NoInt]

\* resolve_api_key(provider): session > env.
session_key(ss, provider) == IF provider = "Gemini" THEN ss.gemini_api_key ELSE ss.openai_api_key
resolve_provider_key(ss, provider) ==
  IF session_key(ss, provider) # NoKey THEN session_key(ss, provider) ELSE EnvKey

\* What the provider's SDK does when validate_api_key asks it about a key.
SdkAnswers(api_key) ==
  {IF api_key \in ValidKeys THEN "models" ELSE "AuthenticationError", "APIConnectionError"}

\* Mutant of validate_api_key: a network error is not stored.
validate_api_key_forget(ss, provider, api_key, answer) ==
  LET hit == {e \in ss.auth_cache : e.provider = provider /\ e.key = api_key}
      status == CASE answer = "models" -> "valid"
                  [] answer = "APIConnectionError" -> "network_error"
                  [] OTHER -> "invalid"
  IN IF api_key = NoKey
     THEN [status |-> "invalid", session |-> ss, contacted |-> FALSE]
     ELSE IF hit # {}
     THEN [status |-> (CHOOSE e \in hit : TRUE).status, session |-> ss, contacted |-> FALSE]
     ELSE [status |-> status,
           session |-> IF status = "network_error" THEN ss
                       ELSE [ss EXCEPT !.auth_cache = @ \cup {[provider |-> provider, key |-> api_key, status |-> status]}],
           contacted |-> TRUE]

\* validate_api_key: the status it returns, the session afterwards and whether
\* the provider was contacted.  The entry auth_cache_<provider>_<sha256 of the
\* key> is the triple of provider, key and status.
validate_api_key(ss, provider, api_key, answer) ==
  LET hit == {e \in ss.auth_cache : e.provider = provider /\ e.key = api_key}
      status == CASE answer = "models" -> "valid"
                  [] answer = "APIConnectionError" -> "network_error"
                  [] OTHER -> "invalid"
  IN IF api_key = NoKey
     THEN [status |-> "invalid", session |-> ss, contacted |-> FALSE]
     ELSE IF hit # {}
     THEN [status |-> (CHOOSE e \in hit : TRUE).status, session |-> ss, contacted |-> FALSE]
     ELSE [status |-> status,
           session |-> [ss EXCEPT !.auth_cache = @ \cup {[provider |-> provider, key |-> api_key, status |-> status]}],
           contacted |-> TRUE]

\* The sidebar of main up to the status display: the key of the selected
\* provider is resolved and, if there is one, validated.
Sidebar(ss, answer) ==
  LET provider == ss.model_provider
      api_key == resolve_provider_key(ss, provider)
  IN IF api_key = NoKey
     THEN [status |-> "unchecked", session |-> ss, contacted |-> FALSE]
     ELSE validate_api_key(ss, provider, api_key, answer)

\* get_llm: a client for the session's provider with the resolved key, None
\* without a key.
get_provider_llm(ss) ==
  IF resolve_provider_key(ss, ss.model_provider) = NoKey THEN NoClient
  ELSE LlmClient(ss.model_provider, resolve_provider_key(ss, ss.model_provider))

\* get_resources, Streamlit branch, with agent_llm a client: the tools are the
\* loader they were built on, the executor is made of the tools.
get_session_resources(ss, fs) ==
  IF ~ss.agent_llm.some \/ ~ss.agent_tools.some
  THEN [ss EXCEPT !.agent_tools = resolve_data_loader(ss, fs), !.agent_llm = get_provider_llm(ss)]
  ELSE ss

\* Mutant of reset_session_resources: the tools are kept.
reset_session_resources_keeptools(ss) ==
  [ss EXCEPT !.agent_llm = NoClient, !.agent_app = FALSE]

\* reset_resources, Streamlit branch: agent_llm, agent_tools, agent_executor
\* and agent_app are deleted.
reset_session_resources(ss) ==
  [ss EXCEPT !.agent_llm = NoClient, !.agent_tools = NoDf, !.agent_app = FALSE]

\* inject_shared_loader, Streamlit branch.
inject_shared_loader(ss, loader) == reset_session_resources([ss EXCEPT !.loader = loader])

\* An uploaded file: whether zipfile can open it, whether it holds a
\* Streaming_History_Audio_*.json name, and the history files it extracts to.
Zip(files) == [readable |-> TRUE, valid_files |-> files # <<>>, files |-> files]
BadZip == [readable |-> FALSE, valid_files |-> FALSE, files |-> <<>>]
Zips ==
  { Zip(<<File("ms_played", <<Play1>>)>>),
    Zip(<<File("ms_played", <<Play1, Play3>>)>>),
    Zip(<<File("ms_played", <<PlayBadTs>>)>>),
    Zip(<<>>),
    BadZip }

\* Mutant of handle_zip_upload: the temp_dir entry of a zip without history
\* files is not deleted.
handle_zip_upload_keepentry(ss, zip) ==
  LET made == [ss EXCEPT !.temp_dir = "exists"]
  IN IF ~zip.readable
     THEN {[session |-> made, error |-> "BadZipFile", loader |-> NoDf]}
     ELSE IF ~zip.valid_files
     THEN {[session |-> [made EXCEPT !.temp_dir = "removed"], error |-> "ValueError", loader |-> NoDf]}
     ELSE {[session |-> made,
            error |-> IF o.raised THEN o.err ELSE "",
            loader |-> IF o.raised THEN NoDf ELSE SomeDf(o.df)] :
             o \in initialize_data("dataloader", FALSE, zip.files)}

\* handle_zip_upload: the old temporary directory is removed and the entry
\* names a new one; the session afterwards, the exception it raises ("" for
\* none) and the loader it returns.
handle_zip_upload(ss, zip) ==
  LET made == [ss EXCEPT !.temp_dir = "exists"]
  IN IF ~zip.readable
     THEN {[session |-> made, error |-> "BadZipFile", loader |-> NoDf]}
     ELSE IF ~zip.valid_files
     THEN {[session |-> [made EXCEPT !.temp_dir = "absent"], error |-> "ValueError", loader |-> NoDf]}
     ELSE {[session |-> made,
            error |-> IF o.raised THEN o.err ELSE "",
            loader |-> IF o.raised THEN NoDf ELSE SomeDf(o.df)] :
             o \in initialize_data("dataloader", FALSE, zip.files)}

\* has_data of main, and can_chat of render_chatbot.
has_data(ss, fs) == ~IsEmpty(resolve_data_loader(ss, fs).t)

\* What a script run leaves in res: the provider and key its sidebar resolved,
\* the status validate_api_key returned for them, whether the provider was
\* contacted, and the exception the handler reported.
Ran(ss, sidebar, error) ==
  [kind |-> "page", provider |-> ss.model_provider,
   api_key |-> resolve_provider_key(ss, ss.model_provider),
   status |-> sidebar.status, contacted |-> sidebar.contacted, error |-> error]

\* The texts render_chatbot stores for an agent run that returned a
\* final_response, returned none, or raised.
AgentOutcomes == {"final_response", "none", "raised"}
ResponseText(outcome) ==
  CASE outcome = "final_response" -> "answer"
    [] outcome = "none" -> "I processed your request but didn't generate a final text response."
    [] outcome = "raised" -> "An error occurred: error"

\* The provider radio is moved: the script stops at st.rerun() before the key
\* is looked at.
SelectProvider ==
  /\ \E provider \in Providers \ {session_state.model_provider} :
       session_state' = reset_session_resources([session_state EXCEPT !.model_provider = provider])
  /\ op' = "Select Model Provider"
  /\ res' = Ran(session_state', [status |-> "unchecked", contacted |-> FALSE], "")
  /\ UNCHANGED <<df, req, loader_obj, cache_data, genai_api_key>>

\* A script run in which no button is pressed (a rerun, a change of view).
Rerun ==
  /\ \E answer \in SdkAnswers(resolve_provider_key(session_state, session_state.model_provider)) :
       LET sidebar == Sidebar(session_state, answer)
       IN /\ session_state' = sidebar.session
          /\ res' = Ran(session_state, sidebar, "")
  /\ op' = "rerun"
  /\ UNCHANGED <<df, req, loader_obj, cache_data, genai_api_key>>

\* "Retry Validation", shown under a network_error status.
RetryValidation ==
  LET sidebar == Sidebar(session_state, "APIConnectionError")
  IN /\ sidebar.status = "network_error"
     /\ ~sidebar.contacted
     /\ session_state' = reset_session_resources([session_state EXCEPT !.auth_cache = {}])
     /\ op' = "Retry Validation"
     /\ res' = Ran(session_state, sidebar, "")
     /\ UNCHANGED <<df, req, loader_obj, cache_data, genai_api_key>>

\* "Clear Custom Key", shown when the key comes from the session.
ClearCustomKey ==
  /\ session_key(session_state, session_state.model_provider) # NoKey
  /\ \E answer \in SdkAnswers(resolve_provider_key(session_state, session_state.model_provider)) :
       LET sidebar == Sidebar(session_state, answer)
           ss == sidebar.session
       IN /\ session_state' =
               reset_session_resources(IF ss.model_provider = "Gemini"
                                       THEN [ss EXCEPT !.gemini_api_key = NoKey]
                                       ELSE [ss EXCEPT !.openai_api_key = NoKey])
          /\ res' = Ran(session_state, sidebar, "")
  /\ op' = "Clear Custom Key"
  /\ UNCHANGED <<df, req, loader_obj, cache_data, genai_api_key>>

\* A key typed into the API key field that differs from the session's.
ApiKeyInput ==
  /\ \E current_input \in TypedKeys(session_state.model_provider) \ {session_key(session_state, session_state.model_provider)},
        answer \in SdkAnswers(resolve_provider_key(session_state, session_state.model_provider)) :
       LET sidebar == Sidebar(session_state, answer)
           ss == sidebar.session
       IN /\ session_state' =
               reset_session_resources(IF ss.model_provider = "Gemini"
                                       THEN [ss EXCEPT !.gemini_api_key = current_input]
                                       ELSE [ss EXCEPT !.openai_api_key = current_input])
          /\ res' = Ran(session_state, sidebar, "")
  /\ op' = "API Key"
  /\ UNCHANGED <<df, req, loader_obj, cache_data, genai_api_key>>

\* "Process Uploaded Data": the loader handle_zip_upload returns is stored and
\* injected and the chat history emptied; an exception is shown and the run
\* goes on.
ProcessUploadedData ==
  /\ \E zip \in Zips,
        answer \in SdkAnswers(resolve_provider_key(session_state, session_state.model_provider)) :
       LET sidebar == Sidebar(session_state, answer)
       IN \E r \in handle_zip_upload(sidebar.session, zip) :
            /\ session_state' =
                 IF r.error # "" THEN r.session
                 ELSE [inject_shared_loader([r.session EXCEPT !.loader = r.loader], r.loader)
                         EXCEPT !.messages = <<>>]
            /\ res' = Ran(session_state, sidebar, r.error)
  /\ op' = "Process Uploaded Data"
  /\ UNCHANGED <<df, req, loader_obj, cache_data, genai_api_key>>

\* "Reset Session / Clear Data".
ResetSessionClearData ==
  /\ \E answer \in SdkAnswers(resolve_provider_key(session_state, session_state.model_provider)) :
       LET sidebar == Sidebar(session_state, answer)
       IN /\ session_state' =
               reset_session_resources([sidebar.session EXCEPT !.loader = NoDf,
                                                               !.gemini_api_key = NoKey,
                                                               !.openai_api_key = NoKey,
                                                               !.messages = <<>>,
                                                               !.temp_dir = "absent"])
          /\ res' = Ran(session_state, sidebar, "")
  /\ op' = "Reset Session / Clear Data"
  /\ UNCHANGED <<df, req, loader_obj, cache_data, genai_api_key>>

\* Mutant of SubmitPrompt: the exception of the agent run is not caught, and
\* the script ends before the answer is stored.
SubmitPrompt_uncaught ==
  /\ has_data(session_state, df)
  /\ Len(session_state.messages) < 2 * MaxPrompts
  /\ \E outcome \in AgentOutcomes,
        answer \in SdkAnswers(resolve_provider_key(session_state, session_state.model_provider)) :
       LET sidebar == Sidebar(session_state, answer)
           prompted == [sidebar.session EXCEPT !.messages = Append(@, HumanMessage("prompt")),
                                              !.agent_app = TRUE]
       IN /\ sidebar.status = "valid"
          /\ session_state' =
               IF outcome = "raised" THEN get_session_resources(prompted, df)
               ELSE [get_session_resources(prompted, df)
                       EXCEPT !.messages = Append(@, AIMessage(ResponseText(outcome), <<>>))]
          /\ res' = Ran(session_state, sidebar, IF outcome = "raised" THEN "error" ELSE "")
  /\ op' = "chat_input"
  /\ UNCHANGED <<df, req, loader_obj, cache_data, genai_api_key>>

\* A prompt typed into st.chat_input of render_chatbot, which is enabled when
\* there is data and the key's status is "valid": the prompt is appended, the
\* graph is compiled if the session has none and run (its first node calls
\* get_resources), and the answer, or the text that stands for it, is appended.
SubmitPrompt ==
  /\ has_data(session_state, df)
  /\ Len(session_state.messages) < 2 * MaxPrompts
  /\ \E outcome \in AgentOutcomes,
        answer \in SdkAnswers(resolve_provider_key(session_state, session_state.model_provider)) :
       LET sidebar == Sidebar(session_state, answer)
           prompted == [sidebar.session EXCEPT !.messages = Append(@, HumanMessage("prompt")),
                                              !.agent_app = TRUE]
       IN /\ sidebar.status = "valid"
          /\ session_state' =
               [get_session_resources(prompted, df)
                  EXCEPT !.messages = Append(@, AIMessage(ResponseText(outcome), <<>>))]
          /\ res' = Ran(session_state, sidebar, IF outcome = "raised" THEN "error" ELSE "")
  /\ op' = "chat_input"
  /\ UNCHANGED <<df, req, loader_obj, cache_data, genai_api_key>>

PageInit ==
  /\ df \in OldStores \ {EmptyDf}
  /\ op = "idle"
  /\ req = NoRequest
  /\ res = Ran(NewSession, [status |-> "unchecked", contacted |-> FALSE], "")
  /\ loader_obj = NoLoaderObj
  /\ session_state = NewSession
  /\ cache_data = NoCache
  /\ genai_api_key = NoKey

PageNext ==
  \/ SelectProvider
  \/ Rerun
  \/ RetryValidation
  \/ ClearCustomKey
  \/ ApiKeyInput
  \/ ProcessUploadedData
  \/ ResetSessionClearData
  \/ SubmitPrompt

PageSpec == PageInit /\ [][PageNext]_vars


\* ------------------------------------------------------------- page claims
Resources(ss) == <<ss.agent_llm, ss.agent_tools, ss.agent_app>>
NoResources == <<NoClient, NoDf, FALSE>>

\* The handlers that change the provider, a key, the key statuses or the
\* loader, when they get to the change.
ChangedConfiguration ==
  \/ op \in {"Select Model Provider", "Retry Validation", "Clear Custom Key", "API Key",
             "Reset Session / Clear Data"}
  \/ op = "Process Uploaded Data" /\ res.error = ""

\* C25: the agent resources a session keeps are absent or built from the
\* loader, provider and key that are resolved now: every handler that changes
\* one of these leaves the session without resources, and the chat that
\* follows builds them from what resolve_data_loader and the key resolution
\* give then.
C25_ResourcesAreCurrent ==
  /\ session_state.agent_tools.some =>
       session_state.agent_tools = resolve_data_loader(session_state, df)
  /\ session_state.agent_llm.some =>
       session_state.agent_llm = get_provider_llm(session_state)
  /\ ChangedConfiguration => Resources(session_state) = NoResources
  /\ op = "chat_input" =>
       Resources(session_state) =
         <<get_provider_llm(session_state), resolve_data_loader(session_state, df), TRUE>>

C25_Witness ==
  /\ op = "chat_input"
  /\ session_state.loader.some
  /\ session_state.agent_tools = session_state.loader
  /\ Len(session_state.agent_tools.t.rows) = 2
  /\ session_state.agent_llm = LlmClient("Gemini", "key-1")

\* The auth_cache_ entries of a provider and key.
CacheEntries(ss, provider, api_key) == {e \in ss.auth_cache : e.provider = provider /\ e.key = api_key}

ValidationStep ==
  LET cached == CacheEntries(session_state, res'.provider, res'.api_key)
  IN /\ res'.status # "unchecked" =>
          IF cached # {}
          THEN ~res'.contacted /\ \A e \in cached : res'.status = e.status
          ELSE /\ res'.contacted
               /\ res'.status \in {"valid", "invalid", "network_error"}
               /\ [provider |-> res'.provider, key |-> res'.api_key, status |-> res'.status]
                    \in session_state'.auth_cache
     /\ op' # "Retry Validation" => session_state.auth_cache \subseteq session_state'.auth_cache
     /\ op' = "Retry Validation" => session_state'.auth_cache = {}

\* C26: validate_api_key answers 'invalid' for an empty key; for any other key
\* it returns the status the session holds for the provider and key without
\* contacting the provider, and when the session holds none it stores the
\* status it computes, whichever it is; an entry stays as it is until Retry
\* Validation deletes the entries.
C26_StatusIsCachedPerKey ==
  /\ [](/\ \A p \in Providers, a \in {"models", "AuthenticationError", "APIConnectionError"} :
             validate_api_key(session_state, p, NoKey, a) =
               [status |-> "invalid", session |-> session_state, contacted |-> FALSE]
        /\ \A e1, e2 \in session_state.auth_cache :
             (e1.provider = e2.provider /\ e1.key = e2.key) => e1 = e2)
  /\ [][ValidationStep]_vars

C26_Witness ==
  /\ op = "rerun"
  /\ res.api_key = "key-1"
  /\ res.status = "network_error"
  /\ ~res.contacted
  /\ [provider |-> "OpenAI", key |-> "key-2", status |-> "invalid"] \in session_state.auth_cache

Alternates(messages) ==
  /\ Len(messages) % 2 = 0
  /\ \A i \in DOMAIN messages : messages[i].type = (IF i % 2 = 1 THEN "human" ELSE "ai")

PromptStep ==
  op' = "chat_input" =>
    \E outcome \in AgentOutcomes :
      /\ (outcome = "raised") = (res'.error # "")
      /\ session_state'.messages =
           session_state.messages \o <<HumanMessage("prompt"), AIMessage(ResponseText(outcome), <<>>)>>

FailedUploadStep ==
  (op' = "Process Uploaded Data" /\ res'.error # "") =>
    /\ session_state'.loader = session_state.loader
    /\ Resources(session_state') = Resources(session_state)
    /\ session_state'.messages = session_state.messages

\* C28: an upload that fails (no history file in the zip, an unreadable zip, a
\* loader that raises) leaves the session's loader, agent resources and chat
\* history as they were, and the session never holds a temp_dir entry that
\* names a removed directory.
C28_FailedUploadChangesNothing ==
  [](session_state.temp_dir # "removed") /\ [][FailedUploadStep]_vars

C28_Witness ==
  /\ op = "Process Uploaded Data"
  /\ res.error = "ValueError"
  /\ session_state.loader.some
  /\ session_state.agent_tools = session_state.loader
  /\ session_state.messages # <<>>
  /\ session_state.temp_dir = "absent"


\* ------------------------------------------------ the dashboard's date filter
\* render_dashboard for the session of the page above: the applied dates are
\* read from the session, and st.date_input raises StreamlitAPIException
\* for a value outside min_value..max_value, which ends the script run.
DateBounds(t) ==
  LET summary == analysis_get_summary([none |-> FALSE, t |-> t], NoInt, NoInt)
  IN [min_d |-> DateOf(summary.date_range.start), max_d |-> DateOf(summary.date_range.end)]

InBounds(date, bounds) == ~date.some \/ (bounds.min_d <= date.v /\ date.v <= bounds.max_d)

\* The Dashboard view of a session with data: header, date inputs, summary of
\* the selected range and the two panels of render_track_artist_analysis.
ViewDashboard ==
  LET ss == session_state
      t == resolve_data_loader(ss, df).t
      summary == analysis_get_summary([none |-> FALSE, t |-> t], NoInt, NoInt)
      bounds == DateBounds(t)
      start_date == IF ss.applied_start_date.some THEN ss.applied_start_date ELSE Some(bounds.min_d)
      end_date == IF ss.applied_end_date.some THEN ss.applied_end_date ELSE Some(bounds.max_d)
      is_filtered == start_date.v > bounds.min_d \/ end_date.v < bounds.max_d
      shown == [kind |-> "dashboard", loader |-> t, min_d |-> bounds.min_d, max_d |-> bounds.max_d,
                error |-> "", is_filtered |-> is_filtered, time_summary |-> summary,
                top_artists |-> NotRendered, top_tracks |-> NotRendered]
  IN /\ has_data(ss, df)
     /\ \E answer \in SdkAnswers(resolve_provider_key(ss, ss.model_provider)) :
          session_state' = Sidebar(ss, answer).session
     /\ IF ~InBounds(ss.applied_start_date, bounds) \/ ~InBounds(ss.applied_end_date, bounds)
        THEN /\ res' = [shown EXCEPT !.error = "StreamlitAPIException"]
             /\ cache_data' = cache_data
        ELSE \E ts \in (IF is_filtered
                        THEN Cached(cache_data, CacheKey("_get_summary_cached", SomeDf(t), 0, start_date, end_date),
                                    SummaryCall(t, start_date, end_date))
                        ELSE {[value |-> summary, cache |-> cache_data]}) :
               \E ta \in Cached(ts.cache, CacheKey("_get_top_artists_cached", NoDf, TopK, start_date, end_date),
                                TopArtistsCall(t, TopK, start_date, end_date)) :
                 \E tt \in (IF ta.value.kind = "error" THEN {[value |-> NotRendered, cache |-> ta.cache]}
                            ELSE Cached(ta.cache, CacheKey("_get_top_tracks_cached", NoDf, TopK, start_date, end_date),
                                        TopTracksCall(t, TopK, start_date, end_date))) :
                   /\ res' = [shown EXCEPT !.time_summary = ts.value, !.top_artists = ta.value,
                                           !.top_tracks = tt.value]
                   /\ cache_data' = tt.cache
     /\ op' = "dashboard"
     /\ UNCHANGED <<df, req, loader_obj, genai_api_key>>

\* "Apply Filters" on a dashboard whose date inputs were drawn: the dates in
\* the two inputs become the applied dates.
ApplyFilters ==
  LET ss == session_state
      bounds == DateBounds(resolve_data_loader(ss, df).t)
  IN /\ has_data(ss, df)
     /\ InBounds(ss.applied_start_date, bounds)
     /\ InBounds(ss.applied_end_date, bounds)
     /\ \E input_start \in bounds.min_d..bounds.max_d, input_end \in bounds.min_d..bounds.max_d,
           answer \in SdkAnswers(resolve_provider_key(ss, ss.model_provider)) :
          /\ session_state' = [Sidebar(ss, answer).session
                                 EXCEPT !.applied_start_date = Some(input_start),
                                        !.applied_end_date = Some(input_end)]
          /\ res' = Ran(ss, Sidebar(ss, answer), "")
     /\ op' = "Apply Filters"
     /\ UNCHANGED <<df, req, loader_obj, cache_data, genai_api_key>>

FilterNext ==
  \/ ProcessUploadedData
  \/ ResetSessionClearData
  \/ ViewDashboard
  \/ ApplyFilters
  \/ CacheExpire

\* The session of a user who works on the Dashboard view and enters no key.
FilterSpec == PageInit /\ [][FilterNext]_vars

\* C29: when the dashboard renders, the applied start and end date of the
\* session are unset or lie between the first and the last date of the store
\* that is rendered, whatever uploads and resets came after Apply Filters.
C29_AppliedDatesWithinStore ==
  op = "dashboard" =>
    /\ InBounds(session_state.applied_start_date, [min_d |-> res.min_d, max_d |-> res.max_d])
    /\ InBounds(session_state.applied_end_date, [min_d |-> res.min_d, max_d |-> res.max_d])

====
